---- MODULE Spec2Model ----
(***************************************************************************)
(* GitLift (arthurbm/pr-ai): the `generate pr` and `generate commit`       *)
(* pipelines, the interactive review loop and the git status parsers.      *)
(*                                                                         *)
(* Text is modelled as a sequence of one-character strings, so that the    *)
(* JavaScript string operations the code uses (trim, split, startsWith,    *)
(* substring, replace, parseInt) are computed rather than assumed.         *)
(***************************************************************************)
EXTENDS Integers, Sequences, FiniteSets, TLC

(***************************************************************************)
(* Bounds of the model.                                                    *)
(***************************************************************************)
\* Longest title / body / diff text the AI provider, the operator or git yield.
MaxLen == 1
\* Largest ahead / behind count `git status --porcelain=v2 --branch` reports.
MaxAhead == 11
\* Largest number of per-file entries in a `git status --porcelain` output.
MaxEntries == 2
\* Largest commit count `git rev-list --count` reports.
MaxCommits == 2
\* Longest commit message body composed on its own.
MaxBody == 3
\* Largest number of fragments in the text of a thrown AI error.
MaxFragments == 3

(***************************************************************************)
(* JavaScript string operations.                                           *)
(***************************************************************************)
NL == "\n"

IsWhitespace(c) == c \in {" ", NL, "\t"}

RECURSIVE trimStart(_)
trimStart(s) ==
    IF s # <<>> /\ IsWhitespace(Head(s)) THEN trimStart(Tail(s)) ELSE s

RECURSIVE trimEnd(_)
trimEnd(s) ==
    IF s # <<>> /\ IsWhitespace(s[Len(s)])
    THEN trimEnd(SubSeq(s, 1, Len(s) - 1))
    ELSE s

\* String.prototype.trim
trim(s) == trimEnd(trimStart(s))

\* String.prototype.startsWith
startsWith(s, p) == Len(s) >= Len(p) /\ SubSeq(s, 1, Len(p)) = p

\* String.prototype.substring(n): the text from offset n (0-based) on
substring(s, n) == SubSeq(s, n + 1, Len(s))

\* Offset (1-based) of the first occurrence of character c in s, 0 if none
RECURSIVE indexOfFrom(_, _, _)
indexOfFrom(s, c, i) ==
    IF i > Len(s) THEN 0
    ELSE IF s[i] = c THEN i
    ELSE indexOfFrom(s, c, i + 1)

\* String.prototype.split with a one-character separator
RECURSIVE split(_, _)
split(s, sep) ==
    LET i == indexOfFrom(s, sep, 1)
    IN  IF i = 0 THEN <<s>>
        ELSE <<SubSeq(s, 1, i - 1)>> \o split(SubSeq(s, i + 1, Len(s)), sep)

\* String.prototype.replace(c, ""): the first occurrence of c removed
replaceFirst(s, c) ==
    LET i == indexOfFrom(s, c, 1)
    IN  IF i = 0 THEN s
        ELSE SubSeq(s, 1, i - 1) \o SubSeq(s, i + 1, Len(s))

\* Array.prototype.join with a one-character separator
RECURSIVE join(_, _)
join(lines, sep) ==
    IF lines = <<>> THEN <<>>
    ELSE IF Len(lines) = 1 THEN lines[1]
    ELSE lines[1] \o <<sep>> \o join(Tail(lines), sep)

Digits == <<"0", "1", "2", "3", "4", "5", "6", "7", "8", "9">>

DigitValue(c) == CHOOSE d \in 0..9 : Digits[d + 1] = c

IsDigit(c) == \E d \in 0..9 : Digits[d + 1] = c

\* The decimal text of a natural number, as git prints it
RECURSIVE toDecimal(_)
toDecimal(n) ==
    IF n < 10 THEN <<Digits[n + 1]>>
    ELSE toDecimal(n \div 10) \o <<Digits[(n % 10) + 1]>>

\* A JavaScript number as Number.parseInt yields it: NaN or an integer
NaN == [nan |-> TRUE, value |-> 0]

Num(n) == [nan |-> FALSE, value |-> n]

RECURSIVE parseDigits(_, _)
parseDigits(s, acc) ==
    IF s # <<>> /\ IsDigit(Head(s))
    THEN parseDigits(Tail(s), acc * 10 + DigitValue(Head(s)))
    ELSE acc

\* Number.parseInt(s, 10): leading whitespace skipped, an optional sign, then
\* the longest run of digits; NaN when that run is empty
parseInt(s) ==
    LET t == trimStart(s)
        neg == t # <<>> /\ Head(t) = "-"
        u == IF t # <<>> /\ Head(t) \in {"-", "+"} THEN Tail(t) ELSE t
    IN  IF u = <<>> \/ ~IsDigit(Head(u)) THEN NaN
        ELSE IF neg THEN Num(0 - parseDigits(u, 0))
        ELSE Num(parseDigits(u, 0))

\* JavaScript `n > 0` (false for NaN)
GreaterThanZero(n) == ~n.nan /\ n.value > 0

(***************************************************************************)
(* utils/errors.ts parseAiApiError, on texts as sequences of characters.   *)
(***************************************************************************)
UpperCase ==
    <<"A", "B", "C", "D", "E", "F", "G", "H", "I", "J", "K", "L", "M", "N",
      "O", "P", "Q", "R", "S", "T", "U", "V", "W", "X", "Y", "Z">>

LowerCase ==
    <<"a", "b", "c", "d", "e", "f", "g", "h", "i", "j", "k", "l", "m", "n",
      "o", "p", "q", "r", "s", "t", "u", "v", "w", "x", "y", "z">>

\* String.prototype.toLowerCase
toLowerCase(s) ==
    [i \in 1..Len(s) |->
        IF \E k \in 1..26 : UpperCase[k] = s[i]
        THEN LowerCase[CHOOSE k \in 1..26 : UpperCase[k] = s[i]]
        ELSE s[i]]

\* String.prototype.includes
RECURSIVE includes(_, _)
includes(s, sub) ==
    IF Len(s) < Len(sub) THEN FALSE
    ELSE IF startsWith(s, sub) THEN TRUE
    ELSE includes(Tail(s), sub)

\* "AI_APICallError:"
ApiCallErrorPrefix ==
    <<"A", "I", "_", "A", "P", "I", "C", "a", "l", "l", "E", "r", "r", "o",
      "r", ":">>

IncorrectApiKey ==
    <<"i", "n", "c", "o", "r", "r", "e", "c", "t", " ", "a", "p", "i", " ",
      "k", "e", "y">>

RateLimit ==
    <<"r", "a", "t", "e", " ", "l", "i", "m", "i", "t">>

ModelNotFound ==
    <<"m", "o", "d", "e", "l", " ", "n", "o", "t", " ", "f", "o", "u", "n",
      "d">>

InsufficientQuota ==
    <<"i", "n", "s", "u", "f", "f", "i", "c", "i", "e", "n", "t", " ", "q",
      "u", "o", "t", "a">>

OpenAiErrorPrefix ==
    <<"O", "p", "e", "n", "A", "I", " ", "A", "P", "I", " ", "E", "r", "r",
      "o", "r", ":", " ">>

InvalidKeyMessage ==
    <<"I", "n", "v", "a", "l", "i", "d", " ", "O", "p", "e", "n", "A", "I",
      " ", "A", "P", "I", " ", "K", "e", "y", " ", "p", "r", "o", "v", "i",
      "d", "e", "d", ".", " ", "P", "l", "e", "a", "s", "e", " ", "c", "h",
      "e", "c", "k", " ", "y", "o", "u", "r", " ", "O", "P", "E", "N", "A",
      "I", "_", "A", "P", "I", "_", "K", "E", "Y", " ", "e", "n", "v", "i",
      "r", "o", "n", "m", "e", "n", "t", " ", "v", "a", "r", "i", "a", "b",
      "l", "e", ".">>

RateLimitMessage ==
    <<"O", "p", "e", "n", "A", "I", " ", "A", "P", "I", " ", "r", "a", "t",
      "e", " ", "l", "i", "m", "i", "t", " ", "e", "x", "c", "e", "e", "d",
      "e", "d", ".", " ", "P", "l", "e", "a", "s", "e", " ", "t", "r", "y",
      " ", "a", "g", "a", "i", "n", " ", "l", "a", "t", "e", "r", " ", "o",
      "r", " ", "c", "h", "e", "c", "k", " ", "y", "o", "u", "r", " ", "u",
      "s", "a", "g", "e", ".">>

QuotaMessage ==
    <<"O", "p", "e", "n", "A", "I", " ", "A", "P", "I", " ", "q", "u", "o",
      "t", "a", " ", "e", "x", "c", "e", "e", "d", "e", "d", ".", " ", "P",
      "l", "e", "a", "s", "e", " ", "c", "h", "e", "c", "k", " ", "y", "o",
      "u", "r", " ", "b", "i", "l", "l", "i", "n", "g", " ", "d", "e", "t",
      "a", "i", "l", "s", " ", "o", "n", " ", "O", "p", "e", "n", "A", "I",
      ".">>

NonErrorMessage ==
    <<"A", "n", " ", "u", "n", "e", "x", "p", "e", "c", "t", "e", "d", " ",
      "n", "o", "n", "-", "E", "r", "r", "o", "r", " ", "o", "b", "j", "e",
      "c", "t", " ", "w", "a", "s", " ", "t", "h", "r", "o", "w", "n", " ",
      "d", "u", "r", "i", "n", "g", " ", "A", "I", " ", "g", "e", "n", "e",
      "r", "a", "t", "i", "o", "n", ".">>

ModelNotFoundHead ==
    <<"T", "h", "e", " ", "s", "p", "e", "c", "i", "f", "i", "e", "d", " ",
      "A", "I", " ", "m", "o", "d", "e", "l", " ", "w", "a", "s", " ", "n",
      "o", "t", " ", "f", "o", "u", "n", "d", ":", " ">>

ModelNotFoundTail ==
    <<".", " ", "P", "l", "e", "a", "s", "e", " ", "c", "h", "e", "c", "k",
      " ", "t", "h", "e", " ", "m", "o", "d", "e", "l", " ", "n", "a", "m",
      "e", " ", "o", "r", " ", "y", "o", "u", "r", " ", "A", "P", "I", " ",
      "a", "c", "c", "e", "s", "s", ".">>

\* modelName = "gpt-4.1-mini", the default of generatePrContent
DefaultModel ==
    <<"g", "p", "t", "-", "4", ".", "1", "-", "m", "i", "n", "i">>

ModelNames ==
    {DefaultModel,
     <<"g", "p", "t", "-", "4", "o">>,
     <<"o", "3">>}

\* A plausible slip: the message names the default model
ModelNotFoundMessage_Default(name) ==
    ModelNotFoundHead \o DefaultModel \o ModelNotFoundTail

ModelNotFoundMessage(name) ==
    ModelNotFoundHead \o name \o ModelNotFoundTail

\* A plausible slip: the rate limit is tested before the API key
refineApiErrorMessage_RateLimitFirst(apiErrorMessage, name) ==
    IF includes(toLowerCase(apiErrorMessage), RateLimit)
    THEN RateLimitMessage
    ELSE IF includes(toLowerCase(apiErrorMessage), IncorrectApiKey)
    THEN InvalidKeyMessage
    ELSE IF includes(toLowerCase(apiErrorMessage), ModelNotFound)
    THEN ModelNotFoundMessage(name)
    ELSE IF includes(toLowerCase(apiErrorMessage), InsufficientQuota)
    THEN QuotaMessage
    ELSE OpenAiErrorPrefix \o apiErrorMessage

\* A plausible slip: the text is not lowercased before the tests
refineApiErrorMessage_CaseSensitive(apiErrorMessage, name) ==
    IF includes(apiErrorMessage, IncorrectApiKey)
    THEN InvalidKeyMessage
    ELSE IF includes(apiErrorMessage, RateLimit)
    THEN RateLimitMessage
    ELSE IF includes(apiErrorMessage, ModelNotFound)
    THEN ModelNotFoundMessage(name)
    ELSE IF includes(apiErrorMessage, InsufficientQuota)
    THEN QuotaMessage
    ELSE OpenAiErrorPrefix \o apiErrorMessage

\* A plausible slip: the lowercased text is what gets reported
refineApiErrorMessage_ReportsLowercased(apiErrorMessage, name) ==
    IF includes(toLowerCase(apiErrorMessage), IncorrectApiKey)
    THEN InvalidKeyMessage
    ELSE IF includes(toLowerCase(apiErrorMessage), RateLimit)
    THEN RateLimitMessage
    ELSE IF includes(toLowerCase(apiErrorMessage), ModelNotFound)
    THEN ModelNotFoundMessage(name)
    ELSE IF includes(toLowerCase(apiErrorMessage), InsufficientQuota)
    THEN QuotaMessage
    ELSE OpenAiErrorPrefix \o toLowerCase(apiErrorMessage)

\* detailedMessage of an API call error: the if / else-if chain of lines 24-38
refineApiErrorMessage(apiErrorMessage, name) ==
    IF includes(toLowerCase(apiErrorMessage), IncorrectApiKey)
    THEN InvalidKeyMessage
    ELSE IF includes(toLowerCase(apiErrorMessage), RateLimit)
    THEN RateLimitMessage
    ELSE IF includes(toLowerCase(apiErrorMessage), ModelNotFound)
    THEN ModelNotFoundMessage(name)
    ELSE IF includes(toLowerCase(apiErrorMessage), InsufficientQuota)
    THEN QuotaMessage
    ELSE OpenAiErrorPrefix \o apiErrorMessage

\* A plausible slip: every Error is refined, with or without the prefix
parseAiApiError_RefinesEveryError(error, name) ==
    IF error.isError
    THEN IF startsWith(error.message, ApiCallErrorPrefix)
         THEN refineApiErrorMessage(
                  trim(substring(error.message, Len(ApiCallErrorPrefix))),
                  name)
         ELSE refineApiErrorMessage(trim(error.message), name)
    ELSE NonErrorMessage

\* parseAiApiError(error, modelName).message; error is an Error with a
\* message, or any other thrown value
parseAiApiError(error, name) ==
    IF error.isError
    THEN IF startsWith(error.message, ApiCallErrorPrefix)
         THEN refineApiErrorMessage(
                  trim(substring(error.message, Len(ApiCallErrorPrefix))),
                  name)
         ELSE error.message
    ELSE NonErrorMessage

(***************************************************************************)
(* Texts the model draws its inputs from.                                  *)
(***************************************************************************)
RECURSIVE StringsUpTo(_, _)
StringsUpTo(chars, n) ==
    IF n = 0 THEN {<<>>}
    ELSE LET shorter == StringsUpTo(chars, n - 1)
         IN  shorter \cup {s \o <<c>> : s \in shorter, c \in chars}

\* Titles: the AI provider's and the operator's
Titles == StringsUpTo({"t"}, MaxLen + 1)

\* Bodies and diffs, with the blanks that trim() removes
Strings == StringsUpTo({"a", " "}, MaxLen)

(***************************************************************************)
(* core/git.ts: ensureBranchIsPushed, the status parser and its decision.  *)
(***************************************************************************)
UpstreamPrefix ==
    <<"#"," ","b","r","a","n","c","h",".","u","p","s","t","r","e","a","m"," ">>

AbPrefix == <<"#"," ","b","r","a","n","c","h",".","a","b"," ">>

\* The states of the current branch relative to its remote: without upstream
\* git prints neither header; with an upstream whose ref is gone it prints
\* branch.upstream alone; otherwise both, with the ahead and behind counts.
BranchStates ==
    [hasUpstream : {FALSE}, gone : {FALSE}, ahead : {0}, behind : {0},
     dirty : BOOLEAN]
    \cup [hasUpstream : {TRUE}, gone : {TRUE}, ahead : {0}, behind : {0},
          dirty : BOOLEAN]
    \cup [hasUpstream : {TRUE}, gone : {FALSE}, ahead : 0..MaxAhead,
          behind : {0, MaxAhead}, dirty : BOOLEAN]

NoBranch ==
    [hasUpstream |-> FALSE, gone |-> FALSE, ahead |-> 0, behind |-> 0,
     dirty |-> FALSE, none |-> TRUE]

\* What `git status --porcelain=v2 --branch` prints for a branch state
porcelainV2(b) ==
    join(<<  <<"#"," ","b","r","a","n","c","h",".","o","i","d"," ","1","a">>,
             <<"#"," ","b","r","a","n","c","h",".","h","e","a","d"," ","f">> >>
         \o (IF b.hasUpstream
             THEN << UpstreamPrefix \o <<"o","/","f">> >>
             ELSE <<>>)
         \o (IF b.hasUpstream /\ ~b.gone
             THEN << AbPrefix \o <<"+">> \o toDecimal(b.ahead)
                     \o <<" ", "-">> \o toDecimal(b.behind) >>
             ELSE <<>>)
         \o (IF b.dirty THEN << <<"1"," ",".","M"," ","f">> >> ELSE <<>>),
         NL) \o <<NL>>

\* The `for (const line of lines)` loop of ensureBranchIsPushed
RECURSIVE parseBranchLines(_, _, _)
parseBranchLines(lines, upstream, ahead) ==
    IF lines = <<>> THEN [upstream |-> upstream, ahead |-> ahead]
    ELSE LET line == Head(lines)
         IN  IF startsWith(line, UpstreamPrefix)
             THEN parseBranchLines(Tail(lines),
                                   substring(line, Len(UpstreamPrefix)), ahead)
             ELSE IF startsWith(line, AbPrefix)
             THEN LET ab == split(substring(line, Len(AbPrefix)), " ")
                  IN  parseBranchLines(Tail(lines), upstream,
                                       parseInt(replaceFirst(ab[1], "+")))
             ELSE parseBranchLines(Tail(lines), upstream, ahead)

\* A plausible slip: the upstream test dropped, only the ahead count decides
decidePush_AheadOnly(statusOutput) ==
    LET p == parseBranchLines(split(trim(statusOutput), NL), <<>>, Num(0))
    IN  [needsPush |-> GreaterThanZero(p.ahead), setUpstream |-> FALSE]

\* needsPush and setUpstream as ensureBranchIsPushed decides them
decidePush(statusOutput) ==
    LET p == parseBranchLines(split(trim(statusOutput), NL), <<>>, Num(0))
    IN  IF p.upstream = <<>>
        THEN [needsPush |-> TRUE, setUpstream |-> TRUE]
        ELSE IF GreaterThanZero(p.ahead)
        THEN [needsPush |-> TRUE, setUpstream |-> FALSE]
        ELSE [needsPush |-> FALSE, setUpstream |-> FALSE]

(***************************************************************************)
(* core/git.ts: getUnstagedChanges, the per-file status parser.            *)
(***************************************************************************)
Paths == {<<"f">>, <<"g">>, <<"h">>}

\* The two status columns of a per-file entry: X is the index column, Y the
\* working tree column; untracked files are printed as ??
StatusCodes ==
    ({<<x, y>> : x \in {" ", "M", "A"}, y \in {" ", "M", "D"}}
        \ {<<" ", " ">>})
    \cup {<<"?", "?">>}

StatusEntry == [x : {" ", "M", "A", "?"}, y : {" ", "M", "D", "?"}, path : Paths]

RECURSIVE EntryListsOfLen(_)
EntryListsOfLen(n) ==
    IF n = 0 THEN {<<>>}
    ELSE {l \o <<e>> :
            l \in EntryListsOfLen(n - 1),
            e \in {e \in StatusEntry : <<e.x, e.y>> \in StatusCodes}}

\* git reports each path once
EntryLists ==
    {l \in UNION {EntryListsOfLen(n) : n \in 0..MaxEntries} :
        \A i, j \in 1..Len(l) : i # j => l[i].path # l[j].path}

\* What `git status --porcelain` prints: XY, a space, the path, per line
RECURSIVE porcelainV1(_)
porcelainV1(entries) ==
    IF entries = <<>> THEN <<>>
    ELSE <<Head(entries).x, Head(entries).y, " ">> \o Head(entries).path
         \o <<NL>> \o porcelainV1(Tail(entries))

\* The `for (const line of lines)` loop of getUnstagedChanges
RECURSIVE classifyLines(_, _, _)
classifyLines(lines, modified, untracked) ==
    IF lines = <<>>
    THEN [unstagedModifiedFiles |-> modified, untrackedFiles |-> untracked]
    ELSE LET trimmedLine == trim(Head(lines))
         IN  IF \/ startsWith(trimmedLine, <<"M", " ">>)
                \/ startsWith(trimmedLine, <<" ", "M">>)
             THEN classifyLines(Tail(lines),
                      Append(modified, trim(substring(trimmedLine, 2))),
                      untracked)
             ELSE IF startsWith(trimmedLine, <<"?", "?">>)
             THEN classifyLines(Tail(lines), modified,
                      Append(untracked, trim(substring(trimmedLine, 2))))
             ELSE classifyLines(Tail(lines), modified, untracked)

\* getUnstagedChanges applied to the text of `git status --porcelain`
parseUnstagedChanges(statusOutput) ==
    classifyLines(split(trim(statusOutput), NL), <<>>, <<>>)

(***************************************************************************)
(* State of one run.                                                       *)
(***************************************************************************)
VARIABLES
    cmd,            \* "pr", "commit", or "status" (getUnstagedChanges alone)
    yes,            \* options.yes (--yes / skipConfirmations)
    dryRun,         \* options.dryRun (generate pr)
    all,            \* options.all (generate commit)
    apiKeySet,      \* process.env.OPENAI_API_KEY is set
    pc,             \* the await the run is suspended at
    exitCode,       \* -1 while the process runs, then its exit code
    errorMessage,   \* message of the error the top-level handler printed
    log,            \* external calls and prompts, in order
    branch,         \* branch state `git status --branch` reported
    needsPush,      \* ensureBranchIsPushed: let needsPush
    setUpstream,    \* ensureBranchIsPushed: let setUpstream
    stagedDiff,     \* handleGenerateCommit: let stagedDiff
    entries,        \* per-file entries `git status --porcelain` reported
    unstagedModifiedFiles,  \* getUnstagedChanges: result
    untrackedFiles,         \* getUnstagedChanges: result
    generated,      \* the object the AI provider returned
    currentTitle,   \* review loop: let currentTitle
    currentBody,    \* review loop: let currentBody
    action,         \* review loop: the action the operator selected last
    lastTitleInput, \* the answer of the last title prompt
    lastBodyInput,  \* the text the last editor session returned
    promptDefault,  \* the default handed to the open title / body prompt
    finalContent,   \* finalPrContent / finalCommitParts
    prArgs,         \* title and body passed to `gh pr create`
    prUrl,          \* what createGitHubPr returned
    commitMessage,  \* the message passed to `git commit -m`
    baseBranch,     \* getGitInfo: parameter baseBranch (options.base)
    localBranchExists,   \* getGitInfo: output of git branch --list
    remoteBranchExists,  \* getGitInfo: output of git ls-remote
    currentBranch,  \* getGitInfo: const currentBranch, then branchName
    commitCount,    \* getGitInfo: const commitCount
    modelName,      \* generatePrContent: parameter modelName
    aiError,        \* generatePrContent: the value caught from generateObject
    thrown,         \* message of the Error parseAiApiError returned
    configFile,     \* loadConfig: what explorer.search() yielded
    config,         \* what loadConfig returned
    cliArgs,        \* the command and the option values given on the command line
    options         \* the option values the handler works with

optVars == <<cmd, yes, dryRun, all, apiKeySet>>
cfgVars == <<configFile, config, cliArgs, options>>
gitVars ==
    <<baseBranch, localBranchExists, remoteBranchExists, currentBranch,
      commitCount>>
pushVars == <<branch, needsPush, setUpstream>>
aiVars == <<modelName, aiError, thrown>>
treeVars == <<stagedDiff, entries, unstagedModifiedFiles, untrackedFiles>>
reviewVars ==
    <<currentTitle, currentBody, action, lastTitleInput, lastBodyInput,
      promptDefault>>
outVars == <<generated, finalContent, prArgs, prUrl, commitMessage>>
vars ==
    <<cmd, yes, dryRun, all, apiKeySet, pc, exitCode, errorMessage, log,
      branch, needsPush, setUpstream, stagedDiff, entries,
      unstagedModifiedFiles, untrackedFiles, generated, currentTitle,
      currentBody, action, lastTitleInput, lastBodyInput, promptDefault,
      finalContent, prArgs, prUrl, commitMessage, baseBranch,
      localBranchExists, remoteBranchExists, currentBranch, commitCount,
      modelName, aiError, thrown, configFile, config, cliArgs, options>>

\* null, as reviewAndConfirmPr returns it and as an unset value
Null == [null |-> TRUE]

Content(t, b) == [title |-> t, body |-> b]

\* No title / body prompt was answered yet
NoInput == <<"none">>

\* getUnstagedChanges was not called, or its result is no longer in scope
NoEntries == <<[x |-> "-", y |-> "-", path |-> <<>>]>>

\* git commit was not invoked yet
NoMessage == <<"none">>

\* The command was not run, or its output is no longer in scope
NoOutput == <<"none">>

\* A text that is not assigned yet
NoText == <<"none">>

\* generateObject has thrown nothing
NoError == [isError |-> FALSE, message |-> NoText]

\* git rev-list --count was not run, or its result is no longer in scope
NotCounted == [nan |-> TRUE, value |-> 0 - 1]

\* The configuration was not loaded, or the command line was not parsed
NotLoaded == [kind |-> "unread"]

\* process.exit(code), or the top-level catch printing msg and exiting 1
Exit(code, msg, events) ==
    /\ pc' = "done"
    /\ exitCode' = code
    /\ errorMessage' = msg
    /\ log' = log \o events

\* The run goes on to the next await
Goto(next, events) ==
    /\ pc' = next
    /\ log' = log \o events
    /\ UNCHANGED <<exitCode, errorMessage>>

InitRun ==
    /\ exitCode = -1
    /\ errorMessage = ""
    /\ log = <<>>
    /\ branch = NoBranch
    /\ needsPush = FALSE
    /\ setUpstream = FALSE
    /\ stagedDiff = <<>>
    /\ unstagedModifiedFiles = <<>>
    /\ untrackedFiles = <<>>
    /\ generated = Null
    /\ currentTitle = <<>>
    /\ currentBody = <<>>
    /\ action = "none"
    /\ lastTitleInput = NoInput
    /\ lastBodyInput = NoInput
    /\ promptDefault = NoInput
    /\ finalContent = Null
    /\ prArgs = Null
    /\ prUrl = NoOutput
    /\ commitMessage = NoMessage
    /\ baseBranch = ""
    /\ localBranchExists = NoOutput
    /\ remoteBranchExists = NoOutput
    /\ currentBranch = ""
    /\ commitCount = NotCounted
    /\ modelName = NoText
    /\ aiError = NoError
    /\ thrown = NoText
    /\ configFile = NotLoaded
    /\ config = NotLoaded
    /\ cliArgs = NotLoaded
    /\ options = NotLoaded

\* A run of `gitlift generate pr` or `gitlift generate commit`
Init ==
    /\ cmd \in {"pr", "commit"}
    /\ yes \in BOOLEAN
    /\ dryRun \in (IF cmd = "pr" THEN BOOLEAN ELSE {FALSE})
    /\ all \in (IF cmd = "commit" THEN BOOLEAN ELSE {FALSE})
    /\ apiKeySet \in BOOLEAN
    /\ pc = (IF cmd = "pr" THEN "checkPrerequisites" ELSE "handleGenerateCommit")
    /\ entries = NoEntries
    /\ InitRun

(***************************************************************************)
(* generate pr: handleGeneratePr and the functions it awaits.              *)
(***************************************************************************)
\* The checks of checkPrerequisites, in the order of the code: Bun.which of
\* git and of gh, gh auth status, process.env.OPENAI_API_KEY
PrerequisiteChecks ==
    <<"which git", "which gh", "gh auth status", "read OPENAI_API_KEY">>

\* The message each check throws with when it fails
PrerequisiteMessages ==
    <<"Git is not installed. Please install git and try again.",
      "GitHub CLI (gh) is not installed. Please install it (e.g., 'brew install gh') and authenticate with 'gh auth login'.",
      "GitHub CLI is not authenticated. Please run 'gh auth login'.",
      "OPENAI_API_KEY environment variable is not set. Please set it (e.g., 'export OPENAI_API_KEY=your_key') and try again.">>

\* The checks up to and including check number k
ChecksUpTo(k) == SubSeq(PrerequisiteChecks, 1, k)

\* A plausible slip: the credential is tested before the tools are looked up
checkPrerequisites_KeyFirst ==
    /\ pc = "checkPrerequisites"
    /\ \E gitFound, ghFound, ghAuth \in BOOLEAN :
          IF ~apiKeySet
          THEN Exit(1, PrerequisiteMessages[4], <<"read OPENAI_API_KEY">>)
          ELSE IF ~gitFound
          THEN Exit(1, PrerequisiteMessages[1],
                    <<"read OPENAI_API_KEY", "which git">>)
          ELSE IF ~ghFound
          THEN Exit(1, PrerequisiteMessages[2],
                    <<"read OPENAI_API_KEY", "which git", "which gh">>)
          ELSE IF ~ghAuth
          THEN Exit(1, PrerequisiteMessages[3],
                    <<"read OPENAI_API_KEY", "which git", "which gh",
                      "gh auth status">>)
          ELSE Goto("getGitInfo",
                    <<"read OPENAI_API_KEY", "which git", "which gh",
                      "gh auth status">>)
    /\ UNCHANGED <<optVars, cfgVars, aiVars, gitVars, pushVars, treeVars, reviewVars, outVars>>

\* A plausible slip: the validator returns without checking anything
checkPrerequisites_ChecksNothing ==
    /\ pc = "checkPrerequisites"
    /\ Goto("getGitInfo", <<>>)
    /\ UNCHANGED <<optVars, cfgVars, aiVars, gitVars, pushVars, treeVars, reviewVars, outVars>>

\* core/prerequisites.ts checkPrerequisites: git, gh, gh auth, API key; the
\* error thrown is rethrown by the catch and ends the run in the top-level
\* handler of handleGeneratePr
checkPrerequisites ==
    /\ pc = "checkPrerequisites"
    /\ \E gitFound, ghFound, ghAuth \in BOOLEAN :
          IF ~gitFound
          THEN Exit(1, PrerequisiteMessages[1], ChecksUpTo(1))
          ELSE IF ~ghFound
          THEN Exit(1, PrerequisiteMessages[2], ChecksUpTo(2))
          ELSE IF ~ghAuth
          THEN Exit(1, PrerequisiteMessages[3], ChecksUpTo(3))
          ELSE IF ~apiKeySet
          THEN Exit(1, PrerequisiteMessages[4], ChecksUpTo(4))
          ELSE Goto("getGitInfo", ChecksUpTo(4))
    /\ UNCHANGED <<optVars, cfgVars, aiVars, gitVars, pushVars, treeVars, reviewVars, outVars>>

(***************************************************************************)
(* core/git.ts getGitInfo(options.base, options.yes), one step per await.  *)
(***************************************************************************)
\* Values of --base (config.baseBranch by default)
BaseBranches == {"main", "develop"}

\* Branches HEAD can be on, as git rev-parse --abbrev-ref HEAD names them
CurrentBranches == {"main", "master", "develop", "feat"}

\* What git branch --list <base> prints: nothing, or the branch
BranchListOutputs == {<<>>, <<" ", " ", "b", NL>>}

\* What git ls-remote --heads origin <base> prints: nothing, or the ref
LsRemoteOutputs == {<<>>, <<"h", "\t", "r", NL>>}

\* The message of the error a failing bun shell command throws
ShellErrorMessage == "Failed with exit code 128"

BaseNotFoundMessage(base) ==
    "Base branch '" \o base \o "' not found locally or on remote 'origin'."

\* A plausible slip: the message names the base branch only
NoCommitsMessage_OmitsCurrent(current, base) ==
    "No commits found on branch ahead of '" \o base
        \o "'. Nothing to create a PR for."

NoCommitsMessage(current, base) ==
    "No commits found on branch '" \o current \o "' ahead of '" \o base
        \o "'. Nothing to create a PR for."

\* A plausible slip: the remote is not consulted
baseBranchMissing_LocalOnly(localOutput, remoteOutput) ==
    trim(localOutput) = <<>>

\* !localBranchExists.trim() and !remoteBranchExists.trim()
baseBranchMissing(localOutput, remoteOutput) ==
    trim(localOutput) = <<>> /\ trim(remoteOutput) = <<>>

\* The test that guards the "Create PR anyway?" prompt
needsTrunkConfirmation(skipConfirm, current, base) ==
    ~skipConfirm /\ (current = base \/ current = "master")

\* Base branch validation: git branch --list, then git ls-remote when the
\* branch is not local
getGitInfo_ValidateBase ==
    /\ pc = "getGitInfo"
    /\ \E base \in BaseBranches :
          /\ baseBranch' = base
          /\ \/ \* git branch --list fails
                /\ Exit(1, ShellErrorMessage, <<"git branch --list">>)
                /\ UNCHANGED <<localBranchExists, remoteBranchExists>>
             \/ \E localOutput \in BranchListOutputs :
                   /\ localBranchExists' = localOutput
                   /\ IF trim(localOutput) # <<>>
                      THEN /\ Goto("getGitInfo rev-parse",
                                   <<"git branch --list">>)
                           /\ UNCHANGED remoteBranchExists
                      ELSE \/ \* git ls-remote fails
                              /\ Exit(1, ShellErrorMessage,
                                      <<"git branch --list", "git ls-remote">>)
                              /\ UNCHANGED remoteBranchExists
                           \/ \E remoteOutput \in LsRemoteOutputs :
                                 /\ remoteBranchExists' = remoteOutput
                                 /\ IF baseBranchMissing(localOutput,
                                                         remoteOutput)
                                    THEN Exit(1, BaseNotFoundMessage(base),
                                              <<"git branch --list",
                                                "git ls-remote">>)
                                    ELSE Goto("getGitInfo rev-parse",
                                              <<"git branch --list",
                                                "git ls-remote",
                                                "warn base remote only">>)
    /\ UNCHANGED <<optVars, cfgVars, aiVars, currentBranch, commitCount, pushVars, treeVars,
                   reviewVars, outVars>>

\* git rev-parse --abbrev-ref HEAD, trimmed, and the trunk test
getGitInfo_CurrentBranch ==
    /\ pc = "getGitInfo rev-parse"
    /\ \/ /\ Exit(1, ShellErrorMessage, <<"git rev-parse">>)
          /\ UNCHANGED currentBranch
       \/ \E current \in CurrentBranches :
             /\ currentBranch' = current
             /\ IF needsTrunkConfirmation(yes, current, baseBranch)
                THEN Goto("getGitInfo proceed",
                          <<"git rev-parse", "prompt trunk">>)
                ELSE Goto("getGitInfo rev-list", <<"git rev-parse">>)
    /\ UNCHANGED <<optVars, cfgVars, aiVars, baseBranch, localBranchExists, remoteBranchExists,
                   commitCount, pushVars, treeVars, reviewVars, outVars>>

\* The operator answers "Create PR anyway?"
getGitInfo_Proceed ==
    /\ pc = "getGitInfo proceed"
    /\ \E proceed \in BOOLEAN :
          IF ~proceed
          THEN Exit(0, "", <<>>)
          ELSE Goto("getGitInfo rev-list", <<>>)
    /\ UNCHANGED <<optVars, cfgVars, aiVars, gitVars, pushVars, treeVars, reviewVars, outVars>>

\* git rev-list --count, the zero test, then git diff and git log; the
\* locals go out of scope on return, currentBranch is returned
getGitInfo_CountCommits ==
    /\ pc = "getGitInfo rev-list"
    /\ \/ /\ Exit(1, ShellErrorMessage, <<"git rev-list">>)
          /\ UNCHANGED gitVars
       \/ \E n \in 0..MaxCommits :
             LET count == parseInt(trim(toDecimal(n) \o <<NL>>))
             IN  IF ~count.nan /\ count.value = 0
                 THEN /\ commitCount' = count
                      /\ Exit(1, NoCommitsMessage(currentBranch, baseBranch),
                              <<"git rev-list">>)
                      /\ UNCHANGED <<baseBranch, localBranchExists,
                                     remoteBranchExists, currentBranch>>
                 ELSE \/ /\ commitCount' = count
                         /\ \E failed \in {"git diff", "git log"} :
                               Exit(1, ShellErrorMessage,
                                    IF failed = "git diff"
                                    THEN <<"git rev-list", "git diff">>
                                    ELSE <<"git rev-list", "git diff",
                                           "git log">>)
                         /\ UNCHANGED <<baseBranch, localBranchExists,
                                        remoteBranchExists, currentBranch>>
                      \/ /\ Goto("ensureBranchIsPushed",
                                 <<"git rev-list", "git diff", "git log">>)
                         /\ baseBranch' = ""
                         /\ localBranchExists' = NoOutput
                         /\ remoteBranchExists' = NoOutput
                         /\ commitCount' = NotCounted
                         /\ UNCHANGED currentBranch
    /\ UNCHANGED <<optVars, cfgVars, aiVars, pushVars, treeVars, reviewVars, outVars>>

getGitInfo ==
    \/ getGitInfo_ValidateBase
    \/ getGitInfo_CurrentBranch
    \/ getGitInfo_Proceed
    \/ getGitInfo_CountCommits

PushError == "Git Error: Error during git status check or push operation."

\* The message of the Error thrown when git push exits with a non-zero code
PushFailedMessage(upstream, name) ==
    "Failed to push branch to remote. Command: 'git push"
    \o (IF upstream THEN " --set-upstream origin " \o name ELSE "")
    \o "'"

\* A plausible slip: the catch rethrows the error it caught
ensureBranchIsPushed_Catch_Rethrows(message) ==
    message

\* The catch of ensureBranchIsPushed: whatever was thrown inside the try is
\* logged and replaced by one Error
ensureBranchIsPushed_Catch(message) ==
    PushError

\* ensureBranchIsPushed up to its decision: the status query, the parse of
\* its output, needsPush / setUpstream, and the prompt or push that follows
ensureBranchIsPushed ==
    /\ pc = "ensureBranchIsPushed"
    /\ \/ \* the status query fails: caught and rethrown
          /\ Exit(1, ensureBranchIsPushed_Catch(ShellErrorMessage),
                  <<"git status --branch">>)
          /\ UNCHANGED pushVars
       \/ \E b \in BranchStates :
             LET d == decidePush(porcelainV2(b))
             IN  /\ branch' = b
                 /\ needsPush' = d.needsPush
                 /\ setUpstream' = d.setUpstream
                 /\ IF ~d.needsPush
                    THEN Goto("ensureBranchIsPushed return",
                              <<"git status --branch">>)
                    ELSE IF ~yes
                    THEN Goto("confirmPush",
                              <<"git status --branch", "prompt push">>)
                    ELSE Goto("push",
                              <<"git status --branch",
                                IF d.setUpstream
                                THEN "git push --set-upstream"
                                ELSE "git push">>)
    /\ UNCHANGED <<optVars, cfgVars, aiVars, gitVars, treeVars, reviewVars, outVars>>

\* ensureBranchIsPushed returns without a push: the branch is up to date
\* (branchName is not read after ensureBranchIsPushed)
ensureBranchIsPushedReturn ==
    /\ pc = "ensureBranchIsPushed return"
    /\ Goto("generate", <<"ensureBranchIsPushed done">>)
    /\ branch' = NoBranch
    /\ needsPush' = FALSE
    /\ setUpstream' = FALSE
    /\ currentBranch' = ""
    /\ UNCHANGED <<optVars, cfgVars, aiVars, baseBranch, localBranchExists, remoteBranchExists,
                   commitCount, treeVars, reviewVars, outVars>>

\* A plausible slip: the push is started but not awaited
confirmPush_NotAwaited ==
    /\ pc = "confirmPush"
    /\ \E answer \in BOOLEAN :
          IF answer
          THEN Goto("generate",
                    <<IF setUpstream THEN "git push --set-upstream"
                      ELSE "git push", "ensureBranchIsPushed done">>)
          ELSE Exit(0, "", <<>>)
    /\ UNCHANGED <<optVars, cfgVars, aiVars, gitVars, pushVars, treeVars, reviewVars, outVars>>

\* A plausible slip: a declined push is skipped but the run goes on
confirmPush_DeclineContinues ==
    /\ pc = "confirmPush"
    /\ \E answer \in BOOLEAN :
          IF answer
          THEN Goto("push",
                    <<IF setUpstream THEN "git push --set-upstream"
                      ELSE "git push">>)
          ELSE Goto("generate", <<"ensureBranchIsPushed done">>)
    /\ UNCHANGED <<optVars, cfgVars, aiVars, gitVars, pushVars, treeVars, reviewVars, outVars>>

\* The operator answers "Push now?"
confirmPush ==
    /\ pc = "confirmPush"
    /\ \E answer \in BOOLEAN :
          IF answer
          THEN Goto("push",
                    <<IF setUpstream THEN "git push --set-upstream"
                      ELSE "git push">>)
          ELSE Exit(0, "", <<>>)
    /\ UNCHANGED <<optVars, cfgVars, aiVars, gitVars, pushVars, treeVars, reviewVars, outVars>>

\* A plausible slip: the exit code of the push is not looked at
push_IgnoresExitCode ==
    /\ pc = "push"
    /\ \E pushExitCode \in {0, 1} :
          Goto("generate",
               <<IF pushExitCode # 0 THEN "push failed" ELSE "push done",
                 "ensureBranchIsPushed done">>)
    /\ branch' = NoBranch
    /\ needsPush' = FALSE
    /\ setUpstream' = FALSE
    /\ currentBranch' = ""
    /\ UNCHANGED <<optVars, cfgVars, aiVars, baseBranch, localBranchExists, remoteBranchExists,
                   commitCount, treeVars, reviewVars, outVars>>

\* The push command settles: exit code 0, or nonzero and the error thrown
push ==
    /\ pc = "push"
    /\ \E pushExitCode \in {0, 1} :
          IF pushExitCode # 0
          THEN Exit(1,
                    ensureBranchIsPushed_Catch(
                        PushFailedMessage(setUpstream, currentBranch)),
                    <<"push failed">>)
          ELSE Goto("generate", <<"push done", "ensureBranchIsPushed done">>)
    /\ branch' = NoBranch
    /\ needsPush' = FALSE
    /\ setUpstream' = FALSE
    /\ currentBranch' = ""
    /\ UNCHANGED <<optVars, cfgVars, aiVars, baseBranch, localBranchExists, remoteBranchExists,
                   commitCount, treeVars, reviewVars, outVars>>

(***************************************************************************)
(* core/ai.ts: generatePrContent and generateCommitMessageContent.         *)
(***************************************************************************)
\* The message of the Error thrown when the credential is not set;
\* parseAiApiError returns it unchanged
MissingKeyMessage ==
    "OpenAI API key is missing. Set the OPENAI_API_KEY environment variable."

\* The call up to the provider request: the credential check, then the
\* request is sent (generateObject)
GenerateRequest ==
    /\ pc = "generate"
    /\ IF ~apiKeySet
       THEN Exit(1, MissingKeyMessage, <<>>)
       ELSE Goto("generateObject", <<"ai request">>)
    /\ UNCHANGED <<optVars, cfgVars, aiVars, gitVars, pushVars, treeVars, reviewVars, outVars>>

\* A plausible slip: a failed request is swallowed and the run goes on
GenerateSettle_SwallowsFailure ==
    /\ pc = "generateObject"
    /\ \/ \E t \in Titles, b \in Strings :
             /\ generated' = Content(t, b)
             /\ Goto("generated", <<"ai done">>)
       \/ \E t \in Titles :
             /\ generated' = Content(t, <<>>)
             /\ Goto("generated", <<"ai failed">>)
    /\ UNCHANGED <<optVars, cfgVars, aiVars, gitVars, pushVars, treeVars, reviewVars, finalContent,
                   prArgs, prUrl, commitMessage>>

\* A plausible slip: a failed request is sent again, and the failed attempt
\* leaves no trace
GenerateSettle_RetriesOnFailure ==
    /\ pc = "generateObject"
    /\ \/ \E t \in Titles, b \in Strings :
             /\ generated' = Content(t, b)
             /\ Goto("generated", <<"ai done">>)
       \/ /\ pc' = "generate"
          /\ log' = SubSeq(log, 1, Len(log) - 1)
          /\ UNCHANGED <<exitCode, errorMessage, generated>>
    /\ UNCHANGED <<optVars, cfgVars, aiVars, gitVars, pushVars, treeVars, reviewVars, finalContent,
                   prArgs, prUrl, commitMessage>>

\* The request settles: an object of the schema (title, body: any strings),
\* or an error that parseAiApiError turns into the thrown message
GenerateSettle ==
    /\ pc = "generateObject"
    /\ \/ \E t \in Titles, b \in Strings :
             /\ generated' = Content(t, b)
             /\ Goto("generated", <<"ai done">>)
       \/ /\ Exit(1, "AI generation failed", <<"ai failed">>)
          /\ UNCHANGED generated
    /\ UNCHANGED <<optVars, cfgVars, aiVars, gitVars, pushVars, treeVars, reviewVars, finalContent,
                   prArgs, prUrl, commitMessage>>

generatePrContent ==
    cmd = "pr" /\ (GenerateRequest \/ GenerateSettle)

generateCommitMessageContent ==
    cmd = "commit" /\ (GenerateRequest \/ GenerateSettle)

(***************************************************************************)
(* handleGeneratePr after the generation, and reviewAndConfirmPr.          *)
(***************************************************************************)
\* A plausible slip: the review is entered whatever options.yes says
handleGeneratePr_ReviewGate_IgnoresYes ==
    /\ cmd = "pr"
    /\ pc = "generated"
    /\ finalContent' = Content(generated.title, generated.body)
    /\ currentTitle' = generated.title
    /\ currentBody' = generated.body
    /\ Goto("review", <<"review start">>)
    /\ UNCHANGED <<optVars, cfgVars, aiVars, gitVars, pushVars, treeVars, generated, action, lastTitleInput, lastBodyInput,
                   promptDefault, prArgs, prUrl, commitMessage>>

\* finalPrContent = {initialTitle, initialBody}; the review unless --yes
handleGeneratePr_ReviewGate ==
    /\ cmd = "pr"
    /\ pc = "generated"
    /\ finalContent' = Content(generated.title, generated.body)
    /\ IF ~yes
       THEN /\ currentTitle' = generated.title
            /\ currentBody' = generated.body
            /\ Goto("review", <<"review start">>)
       ELSE /\ UNCHANGED <<currentTitle, currentBody>>
            /\ Goto("reviewed", <<>>)
    /\ UNCHANGED <<optVars, cfgVars, aiVars, gitVars, pushVars, treeVars, generated, action, lastTitleInput, lastBodyInput,
                   promptDefault, prArgs, prUrl, commitMessage>>

\* The operator's selection is recorded
Select(a) == action' = a

\* A plausible slip: confirm returns the initial content, not the current
reviewAndConfirmPr_Confirm_ReturnsInitial ==
    /\ cmd = "pr"
    /\ pc = "review"
    /\ Select("confirm")
    /\ finalContent' = Content(generated.title, generated.body)
    /\ Goto("reviewed", <<"review return">>)
    /\ UNCHANGED <<optVars, cfgVars, aiVars, gitVars, pushVars, treeVars, generated, currentTitle,
                   currentBody, lastTitleInput, lastBodyInput, promptDefault,
                   prArgs, prUrl, commitMessage>>

\* A plausible slip: confirm returns the trimmed title and body
reviewAndConfirmPr_Confirm_Trims ==
    /\ cmd = "pr"
    /\ pc = "review"
    /\ Select("confirm")
    /\ finalContent' = Content(trim(currentTitle), trim(currentBody))
    /\ Goto("reviewed", <<"review return">>)
    /\ UNCHANGED <<optVars, cfgVars, aiVars, gitVars, pushVars, treeVars, generated, currentTitle,
                   currentBody, lastTitleInput, lastBodyInput, promptDefault,
                   prArgs, prUrl, commitMessage>>

\* case "confirm": return { title: currentTitle, body: currentBody }
reviewAndConfirmPr_Confirm ==
    /\ cmd = "pr"
    /\ pc = "review"
    /\ Select("confirm")
    /\ finalContent' = Content(currentTitle, currentBody)
    /\ Goto("reviewed", <<"review return">>)
    /\ UNCHANGED <<optVars, cfgVars, aiVars, gitVars, pushVars, treeVars, generated, currentTitle,
                   currentBody, lastTitleInput, lastBodyInput, promptDefault,
                   prArgs, prUrl, commitMessage>>

\* case "edit_title": the title prompt opens with currentTitle as default
reviewAndConfirmPr_EditTitle ==
    /\ cmd = "pr"
    /\ pc = "review"
    /\ Select("edit_title")
    /\ promptDefault' = currentTitle
    /\ Goto("editTitle", <<>>)
    /\ UNCHANGED <<optVars, cfgVars, aiVars, gitVars, pushVars, treeVars, outVars, currentTitle,
                   currentBody, lastTitleInput, lastBodyInput>>

\* A plausible slip: a new title discards the edited body
reviewAndConfirmPr_NewTitle_ResetsBody ==
    /\ cmd = "pr"
    /\ pc = "editTitle"
    /\ \E newTitle \in Titles :
          /\ currentTitle' = newTitle
          /\ lastTitleInput' = newTitle
    /\ currentBody' = generated.body
    /\ promptDefault' = NoInput
    /\ Goto("review", <<>>)
    /\ UNCHANGED <<optVars, cfgVars, aiVars, gitVars, pushVars, treeVars, outVars, action,
                   lastBodyInput>>

\* A plausible slip: the loop is left after a title edit
reviewAndConfirmPr_NewTitle_Returns ==
    /\ cmd = "pr"
    /\ pc = "editTitle"
    /\ \E newTitle \in Titles :
          /\ currentTitle' = newTitle
          /\ lastTitleInput' = newTitle
          /\ finalContent' = Content(newTitle, currentBody)
    /\ promptDefault' = NoInput
    /\ Goto("reviewed", <<"review return">>)
    /\ UNCHANGED <<optVars, cfgVars, aiVars, gitVars, pushVars, treeVars, generated, prArgs, prUrl,
                   commitMessage, currentBody, action, lastBodyInput>>

\* currentTitle = newTitle; break: back to the review prompt
reviewAndConfirmPr_NewTitle ==
    /\ cmd = "pr"
    /\ pc = "editTitle"
    /\ \E newTitle \in Titles :
          /\ currentTitle' = newTitle
          /\ lastTitleInput' = newTitle
    /\ promptDefault' = NoInput
    /\ Goto("review", <<>>)
    /\ UNCHANGED <<optVars, cfgVars, aiVars, gitVars, pushVars, treeVars, outVars, currentBody, action, lastBodyInput>>

\* case "edit_body": the editor opens with currentBody as default
reviewAndConfirmPr_EditBody ==
    /\ cmd = "pr"
    /\ pc = "review"
    /\ Select("edit_body")
    /\ promptDefault' = currentBody
    /\ Goto("editBody", <<>>)
    /\ UNCHANGED <<optVars, cfgVars, aiVars, gitVars, pushVars, treeVars, outVars, currentTitle,
                   currentBody, lastTitleInput, lastBodyInput>>

\* currentBody = answers.newBody; break: back to the review prompt
reviewAndConfirmPr_NewBody ==
    /\ cmd = "pr"
    /\ pc = "editBody"
    /\ \E newBody \in Strings :
          /\ currentBody' = newBody
          /\ lastBodyInput' = newBody
    /\ promptDefault' = NoInput
    /\ Goto("review", <<>>)
    /\ UNCHANGED <<optVars, cfgVars, aiVars, gitVars, pushVars, treeVars, outVars, currentTitle, action, lastTitleInput>>

\* A plausible slip: cancel falls through and returns the current content
reviewAndConfirmPr_Cancel_FallsThrough ==
    /\ cmd = "pr"
    /\ pc = "review"
    /\ Select("cancel")
    /\ finalContent' = Content(currentTitle, currentBody)
    /\ Goto("reviewed", <<"review return">>)
    /\ UNCHANGED <<optVars, cfgVars, aiVars, gitVars, pushVars, treeVars, generated, currentTitle,
                   currentBody, lastTitleInput, lastBodyInput, promptDefault,
                   prArgs, prUrl, commitMessage>>

\* case "cancel": return null
reviewAndConfirmPr_Cancel ==
    /\ cmd = "pr"
    /\ pc = "review"
    /\ Select("cancel")
    /\ finalContent' = Null
    /\ Goto("reviewed", <<"review return">>)
    /\ UNCHANGED <<optVars, cfgVars, aiVars, gitVars, pushVars, treeVars, generated, currentTitle,
                   currentBody, lastTitleInput, lastBodyInput, promptDefault,
                   prArgs, prUrl, commitMessage>>

reviewAndConfirmPr ==
    \/ reviewAndConfirmPr_Confirm
    \/ reviewAndConfirmPr_EditTitle
    \/ reviewAndConfirmPr_NewTitle
    \/ reviewAndConfirmPr_EditBody
    \/ reviewAndConfirmPr_NewBody
    \/ reviewAndConfirmPr_Cancel

\* A plausible slip: the dry-run test is left out
handleGeneratePr_AfterReview_IgnoresDryRun ==
    /\ cmd = "pr"
    /\ pc = "reviewed"
    /\ IF finalContent = Null
       THEN Exit(0, "", <<>>)
       ELSE Goto("createGitHubPr", <<>>)
    /\ UNCHANGED <<optVars, cfgVars, aiVars, gitVars, pushVars, treeVars, reviewVars, outVars>>

\* if (!finalPrContent) exit 0; if (options.dryRun) exit 0; else create the PR
handleGeneratePr_AfterReview ==
    /\ cmd = "pr"
    /\ pc = "reviewed"
    /\ IF finalContent = Null
       THEN Exit(0, "", <<>>)
       ELSE IF dryRun
       THEN Exit(0, "", <<"dry run results">>)
       ELSE Goto("createGitHubPr", <<>>)
    /\ UNCHANGED <<optVars, cfgVars, aiVars, gitVars, pushVars, treeVars, reviewVars, outVars>>

\* What gh pr create can print on success: the URL of a numbered pull
\* request, a URL that ends in no number, nothing, or some other text
GhPrOutputs ==
    {<<"h", "t", "t", "p", ":", "/", "/", "h", "/", "7", NL>>,
     <<"h", "t", "t", "p", ":", "/", "/", "h", "/", "n", NL>>,
     <<>>,
     <<NL>>,
     <<"f", "t", "p", ":", "/", "/", "h", "/", "7", NL>>,
     <<"x", " ", "h", "t", "t", "p", ":", "/", "/", "h", "/", "7">>}

\* prUrl.startsWith("http")
Http == <<"h", "t", "t", "p">>

\* The message createGitHubPr throws with, whatever failed inside its try
CreatePrFailedMessage == "GitHub CLI Error: gh pr create command failed."

\* A plausible slip: any non-empty output is taken for the URL
isPrUrl_AnyText(text) ==
    text # <<>>

\* if (!prUrl || !prUrl.startsWith("http")) throw
isPrUrl(text) ==
    text # <<>> /\ startsWith(text, Http)

\* createGitHubPr(title, body): gh pr create, then the URL check; prUrl is
\* the trimmed output (line 21), returned to handleGeneratePr when it passes
createGitHubPr ==
    /\ cmd = "pr"
    /\ pc = "createGitHubPr"
    /\ prArgs' = Content(finalContent.title, finalContent.body)
    /\ \/ \E stdout \in GhPrOutputs :
             /\ prUrl' = trim(stdout)
             /\ IF isPrUrl(trim(stdout))
                THEN Goto("askAndOpenPr", <<"gh pr create">>)
                ELSE Exit(1, CreatePrFailedMessage, <<"gh pr create">>)
       \/ \* gh exits with a non-zero code: the shell call throws
          /\ Exit(1, CreatePrFailedMessage, <<"gh pr create">>)
          /\ UNCHANGED prUrl
    /\ UNCHANGED <<optVars, cfgVars, aiVars, gitVars, pushVars, treeVars, reviewVars, generated,
                   finalContent, commitMessage>>

\* prUrl.split("/").pop()
prNumber(url) == split(url, "/")[Len(split(url, "/"))]

\* prNumber && /^\d+$/.test(prNumber)
isNumber(text) == text # <<>> /\ \A i \in 1..Len(text) : IsDigit(text[i])

\* askAndOpenPr(prUrl, options.yes), then the run ends normally: the prompt
\* unless --yes, gh browse when the URL ends in a number (the URL is printed
\* when it fails), a warning without the URL when it does not
askAndOpenPr ==
    /\ cmd = "pr"
    /\ pc = "askAndOpenPr"
    /\ \E openPr, browseOk \in BOOLEAN :
          LET asked == IF ~yes THEN <<"prompt open">> ELSE <<>>
          IN  IF yes \/ openPr
              THEN IF isNumber(prNumber(prUrl))
                   THEN Exit(0, "", asked \o <<"gh browse">>
                                    \o (IF browseOk THEN <<>>
                                        ELSE <<"gh browse failed",
                                               "print url">>))
                   ELSE Exit(0, "", asked \o <<"warn no pr number">>)
              ELSE Exit(0, "", asked)
    /\ UNCHANGED <<optVars, cfgVars, aiVars, gitVars, pushVars, treeVars, reviewVars, outVars>>

(***************************************************************************)
(* generate commit: handleGenerateCommit and the functions it awaits.      *)
(***************************************************************************)
\* A plausible slip: everything is staged whether --all was passed or not
handleGenerateCommit_AlwaysStages ==
    /\ cmd = "commit"
    /\ pc = "handleGenerateCommit"
    /\ Goto("stageAll", <<"git add .">>)
    /\ UNCHANGED <<optVars, cfgVars, aiVars, gitVars, pushVars, treeVars, reviewVars, outVars>>

\* if (options.all) stageAllTrackedAndUntrackedChanges()
handleGenerateCommit ==
    /\ cmd = "commit"
    /\ pc = "handleGenerateCommit"
    /\ IF all
       THEN Goto("stageAll", <<"git add .">>)
       ELSE Goto("getStagedDiff", <<>>)
    /\ UNCHANGED <<optVars, cfgVars, aiVars, gitVars, pushVars, treeVars, reviewVars, outVars>>

\* stageAllTrackedAndUntrackedChanges: `git add .` settles
stageAllTrackedAndUntrackedChanges ==
    /\ cmd = "commit"
    /\ pc = "stageAll"
    /\ \E addExitCode \in {0, 1} :
          IF addExitCode # 0
          THEN Exit(1, "Git Error: git add . command failed.", <<>>)
          ELSE Goto("getStagedDiff", <<>>)
    /\ UNCHANGED <<optVars, cfgVars, aiVars, gitVars, pushVars, treeVars, reviewVars, outVars>>

\* Per-file entries git can report while nothing is staged: the index column
\* of every tracked entry is blank
UnstagedEntryLists ==
    {l \in EntryLists : \A i \in 1..Len(l) : l[i].x \in {" ", "?"}}

\* A plausible slip: the re-check after staging does not stop the run
getStagedDiff_RecheckGoesOn ==
    /\ cmd = "commit"
    /\ pc = "getStagedDiff"
    /\ \/ \E diffOutput \in Strings :
             /\ stagedDiff' = trim(diffOutput)
             /\ IF trim(diffOutput) # <<>>
                THEN Goto("generate", <<"git diff --staged">>)
                ELSE IF "prompt stage" \in {log[i] : i \in 1..Len(log)}
                THEN Goto("generate", <<"git diff --staged">>)
                ELSE Goto("getUnstagedChanges", <<"git diff --staged">>)
       \/ /\ Exit(1, "Git Error: staged diff failed", <<"git diff --staged">>)
          /\ UNCHANGED stagedDiff
    /\ UNCHANGED <<optVars, cfgVars, aiVars, gitVars, pushVars, entries, unstagedModifiedFiles,
                   untrackedFiles, reviewVars, outVars>>

\* A plausible slip: the diff is tested before it is trimmed
getStagedDiff_TestsUntrimmed ==
    /\ cmd = "commit"
    /\ pc = "getStagedDiff"
    /\ \/ \E diffOutput \in Strings :
             /\ stagedDiff' = trim(diffOutput)
             /\ IF diffOutput # <<>>
                THEN Goto("generate", <<"git diff --staged">>)
                ELSE IF "prompt stage" \in {log[i] : i \in 1..Len(log)}
                THEN Exit(1, "", <<"git diff --staged">>)
                ELSE Goto("getUnstagedChanges", <<"git diff --staged">>)
       \/ /\ Exit(1, "Git Error: staged diff failed", <<"git diff --staged">>)
          /\ UNCHANGED stagedDiff
    /\ UNCHANGED <<optVars, cfgVars, aiVars, gitVars, pushVars, entries, unstagedModifiedFiles,
                   untrackedFiles, reviewVars, outVars>>

\* getStagedDiff, then the branch on its result: the first query, or the
\* re-check after the operator chose to stage
getStagedDiff ==
    /\ cmd = "commit"
    /\ pc = "getStagedDiff"
    /\ \/ \E diffOutput \in Strings :
             /\ stagedDiff' = trim(diffOutput)
             /\ IF trim(diffOutput) # <<>>
                THEN Goto("generate", <<"git diff --staged">>)
                ELSE IF "prompt stage" \in {log[i] : i \in 1..Len(log)}
                THEN Exit(1, "", <<"git diff --staged">>)
                ELSE Goto("getUnstagedChanges", <<"git diff --staged">>)
       \/ /\ Exit(1, "Git Error: staged diff failed", <<"git diff --staged">>)
          /\ UNCHANGED stagedDiff
    /\ UNCHANGED <<optVars, cfgVars, aiVars, gitVars, pushVars, entries, unstagedModifiedFiles,
                   untrackedFiles, reviewVars, outVars>>

\* A plausible slip: with nothing to commit the run goes on to the generation
handleGenerateCommit_Unstaged_GoesOn ==
    /\ cmd = "commit"
    /\ pc = "getUnstagedChanges"
    /\ \/ \E l \in UnstagedEntryLists :
             LET r == parseUnstagedChanges(porcelainV1(l))
             IN  /\ entries' = l
                 /\ unstagedModifiedFiles' = r.unstagedModifiedFiles
                 /\ untrackedFiles' = r.untrackedFiles
                 /\ IF Len(r.unstagedModifiedFiles) > 0
                       \/ Len(r.untrackedFiles) > 0
                    THEN IF ~yes
                         THEN Goto("confirmStage",
                                   <<"git status", "prompt stage">>)
                         ELSE Exit(0, "", <<"git status">>)
                    ELSE Goto("generate", <<"git status">>)
       \/ /\ Exit(1, "Git Error: git status failed", <<"git status">>)
          /\ UNCHANGED <<entries, unstagedModifiedFiles, untrackedFiles>>
    /\ UNCHANGED <<optVars, cfgVars, aiVars, gitVars, pushVars, stagedDiff, reviewVars, outVars>>

\* A plausible slip: with --yes the changes are staged without asking
handleGenerateCommit_Unstaged_YesStages ==
    /\ cmd = "commit"
    /\ pc = "getUnstagedChanges"
    /\ \/ \E l \in UnstagedEntryLists :
             LET r == parseUnstagedChanges(porcelainV1(l))
             IN  /\ entries' = l
                 /\ unstagedModifiedFiles' = r.unstagedModifiedFiles
                 /\ untrackedFiles' = r.untrackedFiles
                 /\ IF Len(r.unstagedModifiedFiles) > 0
                       \/ Len(r.untrackedFiles) > 0
                    THEN IF ~yes
                         THEN Goto("confirmStage",
                                   <<"git status", "prompt stage">>)
                         ELSE Goto("stageAll", <<"git status", "git add .">>)
                    ELSE Exit(0, "", <<"git status">>)
       \/ /\ Exit(1, "Git Error: git status failed", <<"git status">>)
          /\ UNCHANGED <<entries, unstagedModifiedFiles, untrackedFiles>>
    /\ UNCHANGED <<optVars, cfgVars, aiVars, gitVars, pushVars, stagedDiff, reviewVars, outVars>>

\* getUnstagedChanges as handleGenerateCommit calls it, and the branch on
\* its result (lines 40-98)
handleGenerateCommit_Unstaged ==
    /\ cmd = "commit"
    /\ pc = "getUnstagedChanges"
    /\ \/ \E l \in UnstagedEntryLists :
             LET r == parseUnstagedChanges(porcelainV1(l))
             IN  /\ entries' = l
                 /\ unstagedModifiedFiles' = r.unstagedModifiedFiles
                 /\ untrackedFiles' = r.untrackedFiles
                 /\ IF Len(r.unstagedModifiedFiles) > 0
                       \/ Len(r.untrackedFiles) > 0
                    THEN IF ~yes
                         THEN Goto("confirmStage",
                                   <<"git status", "prompt stage">>)
                         ELSE Exit(0, "", <<"git status">>)
                    ELSE Exit(0, "", <<"git status">>)
       \/ /\ Exit(1, "Git Error: git status failed", <<"git status">>)
          /\ UNCHANGED <<entries, unstagedModifiedFiles, untrackedFiles>>
    /\ UNCHANGED <<optVars, cfgVars, aiVars, gitVars, pushVars, stagedDiff, reviewVars, outVars>>

\* A plausible slip: declining to stage is reported as a failure
confirmStage_DeclineFails ==
    /\ cmd = "commit"
    /\ pc = "confirmStage"
    /\ \E answer \in BOOLEAN :
          IF answer
          THEN Goto("stageAll", <<"git add .">>)
          ELSE Exit(1, "", <<>>)
    /\ entries' = NoEntries
    /\ unstagedModifiedFiles' = <<>>
    /\ untrackedFiles' = <<>>
    /\ UNCHANGED <<optVars, cfgVars, aiVars, gitVars, pushVars, stagedDiff, reviewVars, outVars>>

\* The operator answers "stage all these changes and proceed?"
confirmStage ==
    /\ cmd = "commit"
    /\ pc = "confirmStage"
    /\ \E answer \in BOOLEAN :
          IF answer
          THEN Goto("stageAll", <<"git add .">>)
          ELSE Exit(0, "", <<>>)
    /\ entries' = NoEntries
    /\ unstagedModifiedFiles' = <<>>
    /\ untrackedFiles' = <<>>
    /\ UNCHANGED <<optVars, cfgVars, aiVars, gitVars, pushVars, stagedDiff, reviewVars, outVars>>

\* finalCommitParts = {initialTitle, initialBody}; the review unless --yes
handleGenerateCommit_ReviewGate ==
    /\ cmd = "commit"
    /\ pc = "generated"
    /\ finalContent' = Content(generated.title, generated.body)
    /\ IF ~yes
       THEN /\ currentTitle' = generated.title
            /\ currentBody' = generated.body
            /\ Goto("review", <<"review start">>)
       ELSE /\ UNCHANGED <<currentTitle, currentBody>>
            /\ Goto("reviewed", <<>>)
    /\ UNCHANGED <<optVars, cfgVars, aiVars, gitVars, pushVars, treeVars, generated, action, lastTitleInput, lastBodyInput,
                   promptDefault, prArgs, prUrl, commitMessage>>

\* ui/commit-ui reviewAndConfirmCommitMessage: the review loop of section 4.5
reviewAndConfirmCommitMessage ==
    /\ cmd = "commit"
    /\ \/ /\ pc = "review"
          /\ \E a \in {"confirm", "cancel"} :
                /\ Select(a)
                /\ finalContent' =
                       (IF a = "confirm"
                        THEN Content(currentTitle, currentBody)
                        ELSE Null)
          /\ Goto("reviewed", <<"review return">>)
          /\ UNCHANGED <<currentTitle, currentBody, lastTitleInput,
                         lastBodyInput, promptDefault>>
       \/ /\ pc = "review"
          /\ \E a \in {"edit_title", "edit_body"} :
                /\ Select(a)
                /\ promptDefault' =
                       (IF a = "edit_title" THEN currentTitle
                        ELSE currentBody)
                /\ Goto(IF a = "edit_title" THEN "editTitle" ELSE "editBody",
                        <<>>)
          /\ UNCHANGED <<currentTitle, currentBody, lastTitleInput,
                         lastBodyInput, finalContent>>
       \/ /\ pc = "editTitle"
          /\ \E newTitle \in Titles :
                /\ currentTitle' = newTitle
                /\ lastTitleInput' = newTitle
          /\ promptDefault' = NoInput
          /\ Goto("review", <<>>)
          /\ UNCHANGED <<currentBody, action, lastBodyInput,
                         finalContent>>
       \/ /\ pc = "editBody"
          /\ \E newBody \in Strings :
                /\ currentBody' = newBody
                /\ lastBodyInput' = newBody
          /\ promptDefault' = NoInput
          /\ Goto("review", <<>>)
          /\ UNCHANGED <<currentTitle, action, lastTitleInput,
                         finalContent>>
    /\ UNCHANGED <<optVars, cfgVars, aiVars, gitVars, pushVars, treeVars, generated, prArgs, prUrl,
                   commitMessage>>

\* A plausible slip: the body is tested before it is trimmed
finalCommitString_TestsUntrimmed(parts) ==
    IF parts.body # <<>>
    THEN parts.title \o <<NL, NL>> \o trim(parts.body)
    ELSE parts.title

\* The final commit message: the title, then a blank line and the trimmed
\* body when the body is not blank
finalCommitString(parts) ==
    IF trim(parts.body) # <<>>
    THEN parts.title \o <<NL, NL>> \o trim(parts.body)
    ELSE parts.title

\* if (!finalCommitParts) exit 0; else compose the message and commit
handleGenerateCommit_AfterReview ==
    /\ cmd = "commit"
    /\ pc = "reviewed"
    /\ IF finalContent = Null
       THEN /\ Exit(0, "", <<>>)
            /\ UNCHANGED commitMessage
       ELSE /\ commitMessage' = finalCommitString(finalContent)
            /\ Goto("gitCommit", <<"git commit">>)
    /\ UNCHANGED <<optVars, cfgVars, aiVars, gitVars, pushVars, treeVars, reviewVars, generated,
                   finalContent, prArgs, prUrl>>

\* gitCommit(message): `git commit -m` settles, then the run ends normally
gitCommit ==
    /\ cmd = "commit"
    /\ pc = "gitCommit"
    /\ \E commitExitCode \in {0, 1} :
          IF commitExitCode # 0
          THEN Exit(1, "Git Error: git commit -m command failed.", <<>>)
          ELSE Exit(0, "", <<"commit done">>)
    /\ UNCHANGED <<optVars, cfgVars, aiVars, gitVars, pushVars, treeVars, reviewVars, outVars>>

(***************************************************************************)
(* The run.                                                                *)
(***************************************************************************)
handleGeneratePr ==
    \/ checkPrerequisites
    \/ getGitInfo
    \/ ensureBranchIsPushed
    \/ ensureBranchIsPushedReturn
    \/ confirmPush
    \/ push
    \/ generatePrContent
    \/ handleGeneratePr_ReviewGate
    \/ reviewAndConfirmPr
    \/ handleGeneratePr_AfterReview
    \/ createGitHubPr
    \/ askAndOpenPr

generateCommit ==
    \/ handleGenerateCommit
    \/ stageAllTrackedAndUntrackedChanges
    \/ getStagedDiff
    \/ handleGenerateCommit_Unstaged
    \/ confirmStage
    \/ generateCommitMessageContent
    \/ handleGenerateCommit_ReviewGate
    \/ reviewAndConfirmCommitMessage
    \/ handleGenerateCommit_AfterReview
    \/ gitCommit

Next == handleGeneratePr \/ generateCommit

Spec == Init /\ [][Next]_vars

\* Every external call (process, network request, prompt) settles: a run
\* that can take a step eventually takes one
SpecLive == Init /\ [][Next]_vars /\ WF_vars(Next)

(***************************************************************************)
(* getUnstagedChanges on its own: every output `git status --porcelain`    *)
(* can print for up to MaxEntries paths.                                   *)
(***************************************************************************)
InitStatus ==
    /\ cmd = "status"
    /\ yes = FALSE
    /\ dryRun = FALSE
    /\ all = FALSE
    /\ apiKeySet = TRUE
    /\ pc = "getUnstagedChanges"
    /\ entries \in EntryLists
    /\ InitRun

\* getUnstagedChanges(): the status query, then the classification loop
getUnstagedChanges ==
    /\ cmd = "status"
    /\ pc = "getUnstagedChanges"
    /\ \/ LET r == parseUnstagedChanges(porcelainV1(entries))
          IN  /\ unstagedModifiedFiles' = r.unstagedModifiedFiles
              /\ untrackedFiles' = r.untrackedFiles
              /\ Goto("returned", <<"git status">>)
       \/ \* the status query fails: rethrown
          /\ Goto("thrown", <<"git status">>)
          /\ UNCHANGED <<unstagedModifiedFiles, untrackedFiles>>
    /\ UNCHANGED <<optVars, cfgVars, aiVars, gitVars, pushVars, stagedDiff, entries, reviewVars,
                   outVars>>

SpecStatus == InitStatus /\ [][getUnstagedChanges]_vars

(***************************************************************************)
(* The composition of the commit message on its own: every confirmed title *)
(* and body up to MaxLen + 1 and MaxBody characters.                       *)
(***************************************************************************)
MessageTitles == StringsUpTo({"t", " "}, MaxLen + 1)

MessageBodies == StringsUpTo({"a", " ", NL}, MaxBody)

InitMessage ==
    /\ cmd = "message"
    /\ yes = FALSE
    /\ dryRun = FALSE
    /\ all = FALSE
    /\ apiKeySet = TRUE
    /\ pc = "reviewed"
    /\ entries = NoEntries
    /\ InitRun

\* handleGenerateCommit from the confirmed parts on: finalCommitString is
\* composed and handed to gitCommit
composeCommitMessage ==
    /\ cmd = "message"
    /\ pc = "reviewed"
    /\ \E t \in MessageTitles, b \in MessageBodies :
          /\ finalContent' = Content(t, b)
          /\ commitMessage' = finalCommitString(Content(t, b))
    /\ Goto("gitCommit", <<"git commit">>)
    /\ UNCHANGED <<optVars, cfgVars, aiVars, gitVars, pushVars, treeVars, reviewVars, generated, prArgs,
                   prUrl>>

SpecMessage == InitMessage /\ [][composeCommitMessage]_vars

(***************************************************************************)
(* The catch of generatePrContent on its own: every model name and every   *)
(* thrown value whose text is made of up to MaxFragments fragments.        *)
(***************************************************************************)
ErrorFragments ==
    {ApiCallErrorPrefix,
     <<" ", "i", "n", "c", "o", "r", "r", "e", "c", "t", " ", "a", "p", "i",
       " ", "k", "e", "y", " ", "p", "r", "o", "v", "i", "d", "e", "d">>,
     <<" ", "I", "n", "c", "o", "r", "r", "e", "c", "t", " ", "A", "P", "I",
       " ", "K", "e", "y">>,
     <<" ", "R", "a", "t", "e", " ", "l", "i", "m", "i", "t", " ", "r", "e",
       "a", "c", "h", "e", "d">>,
     <<" ", "m", "o", "d", "e", "l", " ", "n", "o", "t", " ", "f", "o", "u",
       "n", "d">>,
     <<" ", "i", "n", "s", "u", "f", "f", "i", "c", "i", "e", "n", "t", " ",
       "q", "u", "o", "t", "a">>,
     <<"X", " ">>}

RECURSIVE ErrorTextsUpTo(_)
ErrorTextsUpTo(n) ==
    IF n = 0 THEN {<<>>}
    ELSE LET shorter == ErrorTextsUpTo(n - 1)
         IN  shorter \cup {s \o f : s \in shorter, f \in ErrorFragments}

\* What generateObject can throw: an Error with a message, or another value
\* (a string with its text; null, undefined or an object with no text)
AiErrors ==
    [isError : {TRUE}, message : ErrorTextsUpTo(MaxFragments)]
    \cup [isError : {FALSE},
          message : ErrorTextsUpTo(MaxFragments) \cup {NoText}]

InitAiError ==
    /\ cmd = "generate"
    /\ yes = FALSE
    /\ dryRun = FALSE
    /\ all = FALSE
    /\ apiKeySet = TRUE
    /\ pc = "generate"
    /\ entries = NoEntries
    /\ InitRun

\* generatePrContent(diff, commits, modelName, language) up to generateObject
generatePrContent_Call ==
    /\ cmd = "generate"
    /\ pc = "generate"
    /\ \E name \in ModelNames : modelName' = name
    /\ Goto("generateObject", <<"ai request">>)
    /\ UNCHANGED <<optVars, cfgVars, aiError, thrown, gitVars, pushVars, treeVars,
                   reviewVars, outVars>>

\* catch (error) { throw parseAiApiError(error, modelName) }
generatePrContent_Catch ==
    /\ cmd = "generate"
    /\ pc = "generateObject"
    /\ \E error \in AiErrors :
          /\ aiError' = error
          /\ thrown' = parseAiApiError(error, modelName)
    /\ Goto("thrown", <<"ai failed">>)
    /\ UNCHANGED <<optVars, cfgVars, modelName, gitVars, pushVars, treeVars,
                   reviewVars, outVars>>

SpecAiError ==
    InitAiError /\ [][generatePrContent_Call \/ generatePrContent_Catch]_vars

(***************************************************************************)
(* config/config.ts loadConfig, and the options of the two commands.       *)
(***************************************************************************)
\* A JavaScript value: its type and its text
Undefined == [type |-> "undefined", text |-> ""]
Str(t) == [type |-> "string", text |-> t]
Bool(b) == [type |-> "boolean", text |-> IF b THEN "true" ELSE "false"]
Number(t) == [type |-> "number", text |-> t]

\* The properties of ConfigFileSchema
ConfigProps == {"baseBranch", "model", "skipConfirmations", "language"}

\* The properties a configuration file can hold: those, and any other
FileProps == ConfigProps \cup {"unknownProperty"}

\* The type ConfigFileSchema gives each property
SchemaType(prop) == IF prop = "skipConfirmations" THEN "boolean" ELSE "string"

\* export const defaultConfig
defaultConfig ==
    [prop \in ConfigProps |->
        CASE prop = "baseBranch" -> Str("main")
          [] prop = "model" -> Str("gpt-4.1-mini")
          [] prop = "skipConfirmations" -> Bool(FALSE)
          [] prop = "language" -> Str("english")]

\* let loadedConfig: AppConfig = {}
EmptyObject == [prop \in FileProps |-> Undefined]

\* The values a configuration file can give each property (Undefined: the
\* file does not hold the property)
FileValues(prop) ==
    CASE prop = "baseBranch" -> {Undefined, Str("develop"), Number("123")}
      [] prop = "model" -> {Undefined, Str("gpt-4"), Str("")}
      [] prop = "skipConfirmations" ->
            {Undefined, Bool(TRUE), Bool(FALSE), Str("true")}
      [] prop = "language" -> {Undefined, Str("portuguese")}
      [] prop = "unknownProperty" -> {Undefined, Str("should be rejected")}

FileObjects == {f \in [FileProps -> UNION {FileValues(prop) : prop \in FileProps}] :
                   \A prop \in FileProps : f[prop] \in FileValues(prop)}

\* What explorer.search() yields: no file, an empty file, an error for a
\* file that cannot be parsed, or the object the file holds
SearchResults ==
    [kind : {"none", "empty", "throws"}, config : {EmptyObject}]
    \cup [kind : {"object"}, config : FileObjects]

\* ConfigFileSchema.parse(object) returns: every property the object holds
\* is one of the schema (.strict()) and has the type of the schema
ConfigFileSchemaAccepts(object) ==
    \A prop \in FileProps :
        object[prop] # Undefined =>
            (prop \in ConfigProps /\ object[prop].type = SchemaType(prop))

\* A plausible slip: the valid properties of an invalid file are kept
loadedConfig_KeepsValidFields(result) ==
    IF result.kind = "object"
    THEN [prop \in FileProps |->
             IF prop \in ConfigProps
                /\ result.config[prop].type = SchemaType(prop)
             THEN result.config[prop]
             ELSE Undefined]
    ELSE EmptyObject

\* loadedConfig when the try / catch is left (lines 127-152): the parsed
\* object, or the initial {} when nothing was found or anything threw
loadedConfig(result) ==
    IF result.kind = "object" /\ ConfigFileSchemaAccepts(result.config)
    THEN result.config
    ELSE EmptyObject

\* { ...defaults, ...loaded }
spread(defaults, loaded) ==
    [prop \in ConfigProps |->
        IF loaded[prop] # Undefined THEN loaded[prop] ELSE defaults[prop]]

\* loadConfig(): the search, the validation, the merge with the defaults
loadConfig ==
    /\ cmd = "config"
    /\ pc = "loadConfig"
    /\ \E result \in SearchResults :
          /\ configFile' = result
          /\ config' = spread(defaultConfig, loadedConfig(result))
    /\ Goto("parse", <<"search config">>)
    /\ UNCHANGED <<optVars, cliArgs, options, aiVars, gitVars, pushVars,
                   treeVars, reviewVars, outVars>>

\* commander: the value of an option is the one given, or its default
optionValue(given, default) == IF given # Undefined THEN given ELSE default

\* JavaScript a || b
or(a, b) ==
    IF a # Undefined /\ a # Str("") /\ a # Bool(FALSE) THEN a ELSE b

\* What the command line of generate pr can give: --base, --model,
\* --language (any text), --yes
PrArgs ==
    [command : {"pr"},
     base : {Undefined, Str("feat")},
     model : {Undefined, Str("o3"), Str("")},
     language : {Undefined, Str("spanish")},
     yes : {Undefined, Bool(TRUE)}]

\* What the command line of generate commit can give: --model, --language,
\* --yes (the command has no --base)
CommitArgs ==
    [command : {"commit"},
     base : {Undefined},
     model : {Undefined, Str("o3"), Str("")},
     language : {Undefined, Str("spanish")},
     yes : {Undefined, Bool(TRUE)}]

\* registerPrCommand: every option has the configuration value as default
registerPrCommand ==
    /\ cmd = "config"
    /\ pc = "parse"
    /\ \E args \in PrArgs :
          /\ cliArgs' = args
          /\ options' = [base |-> optionValue(args.base, config.baseBranch),
                         model |-> optionValue(args.model, config.model),
                         language |-> optionValue(args.language,
                                                  config.language),
                         yes |-> optionValue(args.yes,
                                             config.skipConfirmations)]
    /\ Goto("resolved", <<"parse argv">>)
    /\ UNCHANGED <<optVars, configFile, config, aiVars, gitVars, pushVars,
                   treeVars, reviewVars, outVars>>

\* registerCommitCommand and lines 101-102 of handleGenerateCommit: --model
\* and --language have no default, the handler falls back to the
\* configuration (options.model || config.model)
registerCommitCommand ==
    /\ cmd = "config"
    /\ pc = "parse"
    /\ \E args \in CommitArgs :
          /\ cliArgs' = args
          /\ options' = [base |-> Undefined,
                         model |-> or(args.model, config.model),
                         language |-> or(args.language, config.language),
                         yes |-> optionValue(args.yes,
                                             config.skipConfirmations)]
    /\ Goto("resolved", <<"parse argv">>)
    /\ UNCHANGED <<optVars, configFile, config, aiVars, gitVars, pushVars,
                   treeVars, reviewVars, outVars>>

\* The start of the program: nothing is loaded or parsed yet
InitConfig ==
    /\ cmd = "config"
    /\ yes = FALSE
    /\ dryRun = FALSE
    /\ all = FALSE
    /\ apiKeySet = TRUE
    /\ pc = "loadConfig"
    /\ entries = NoEntries
    /\ InitRun

SpecConfig ==
    InitConfig
    /\ [][loadConfig \/ registerPrCommand \/ registerCommitCommand]_vars

(***************************************************************************)
(* Properties.                                                             *)
(***************************************************************************)
Events == {log[i] : i \in 1..Len(log)}

\* Every occurrence of event b in the log has an earlier occurrence of a
Precedes(a, b) ==
    \A j \in 1..Len(log) : log[j] = b => \E i \in 1..(j - 1) : log[i] = a

PushCommands == {"git push", "git push --set-upstream"}

ReviewPcs == {"review", "editTitle", "editBody"}

GeneratedContent == Content(generated.title, generated.body)

\* C1: side effects are totally ordered. On the PR path the push step has
\* returned before the AI request starts, and a push that was started has
\* settled before it; on both paths the generation has completed before
\* gh pr create or git commit is invoked.
C1_SideEffectsOrdered ==
    /\ cmd = "pr" =>
          /\ Precedes("ensureBranchIsPushed done", "ai request")
          /\ \A j \in 1..Len(log) :
                log[j] = "ai request" =>
                   \A i \in 1..(j - 1) :
                      log[i] \in PushCommands =>
                         \E k \in (i + 1)..(j - 1) : log[k] = "push done"
    /\ Precedes("ai request", "ai done")
    /\ Precedes("ai done", "gh pr create")
    /\ Precedes("ai done", "git commit")
    /\ (prArgs # Null \/ commitMessage # NoMessage) => "ai done" \in Events

\* A PR was created in a run that pushed the branch first
C1_Witness ==
    /\ cmd = "pr"
    /\ "push done" \in Events
    /\ "gh pr create" \in Events

\* The operator's first action in the review loop was confirm
FirstActionConfirm ==
    /\ action = "confirm"
    /\ lastTitleInput = NoInput
    /\ lastBodyInput = NoInput

\* C2: when the first action in the review loop is confirm,
\* reviewAndConfirmPr returns the generated title and body unchanged.
C2_ImmediateConfirmIdentity ==
    (cmd = "pr" /\ FirstActionConfirm) => finalContent = GeneratedContent

\* An immediate confirm of a body that trimming would change
C2_Witness ==
    /\ cmd = "pr"
    /\ pc = "reviewed"
    /\ FirstActionConfirm
    /\ trim(generated.body) # generated.body

\* C3: the review loop has exactly the transitions Reviewing->EditingTitle->
\* Reviewing, Reviewing->EditingBody->Reviewing, Reviewing->Confirmed and
\* Reviewing->Cancelled; it returns only on confirm (the current title and
\* body) or cancel (null).
C3_ReviewTransitions ==
    [][cmd = "pr" =>
        /\ pc = "review" => pc' \in {"editTitle", "editBody", "reviewed"}
        /\ pc = "editTitle" => pc' = "review"
        /\ pc = "editBody" => pc' = "review"
        /\ pc' = "editTitle" => pc = "review" /\ action' = "edit_title"
        /\ pc' = "editBody" => pc = "review" /\ action' = "edit_body"
        /\ (pc \in ReviewPcs /\ pc' \notin ReviewPcs) =>
              /\ pc = "review"
              /\ pc' = "reviewed"
              /\ \/ /\ action' = "confirm"
                    /\ finalContent' = Content(currentTitle, currentBody)
                 \/ /\ action' = "cancel"
                    /\ finalContent' = Null
      ]_vars

\* Back at the review prompt after a body edit that followed a title edit
C3_Witness ==
    /\ cmd = "pr"
    /\ pc = "review"
    /\ action = "edit_body"
    /\ lastTitleInput # NoInput

\* C4: an edit-title action changes only the title and an edit-body action
\* changes only the body.
C4_EditFrame ==
    [][cmd = "pr" =>
        /\ (pc = "review" /\ pc' \in {"editTitle", "editBody"}) =>
              currentTitle' = currentTitle /\ currentBody' = currentBody
        /\ pc = "editTitle" =>
              currentBody' = currentBody /\ currentTitle' = lastTitleInput'
        /\ pc = "editBody" =>
              currentTitle' = currentTitle /\ currentBody' = lastBodyInput'
      ]_vars

\* A title edit that changed the title after the body had been edited
C4_Witness ==
    /\ cmd = "pr"
    /\ pc = "review"
    /\ action = "edit_title"
    /\ currentTitle # generated.title
    /\ lastBodyInput # NoInput
    /\ currentBody # generated.body

\* C5: after any sequence of edits, confirm returns the last title entered
\* (the generated title if none) and the text of the last body edit (the
\* generated body if none); each body edit opens on the body the previous
\* edit left.
C5_LastEditWins ==
    cmd = "pr" =>
        /\ action = "confirm" =>
              /\ finalContent # Null
              /\ finalContent.title =
                     (IF lastTitleInput = NoInput THEN generated.title
                      ELSE lastTitleInput)
              /\ finalContent.body =
                     (IF lastBodyInput = NoInput THEN generated.body
                      ELSE lastBodyInput)
        /\ pc = "editBody" =>
              promptDefault =
                  (IF lastBodyInput = NoInput THEN generated.body
                   ELSE lastBodyInput)

\* A confirm after a title edit and a body edit that both changed the text
C5_Witness ==
    /\ cmd = "pr"
    /\ pc = "reviewed"
    /\ action = "confirm"
    /\ lastTitleInput \notin {NoInput, generated.title}
    /\ lastBodyInput \notin {NoInput, generated.body}

\* C6: with confirmations skipped the review loop is never entered and no
\* review prompt is shown; gh pr create, or the commit message composition,
\* receives exactly the generated title and body.
C6_SkipConfirmations ==
    yes =>
        /\ pc \notin ReviewPcs
        /\ "review start" \notin Events
        /\ action = "none"
        /\ prArgs # Null => prArgs = GeneratedContent
        /\ commitMessage # NoMessage =>
              /\ finalContent = GeneratedContent
              /\ commitMessage = finalCommitString(GeneratedContent)

\* gh pr create was invoked in a run with --yes
C6_Witness ==
    /\ yes
    /\ cmd = "pr"
    /\ "gh pr create" \in Events
    /\ generated.body # <<>>

\* C7: after a cancel in the review loop the run ends with exit code 0 and
\* neither git commit nor gh pr create nor the open-in-browser step runs.
C7_CancelEndsRun ==
    action = "cancel" =>
        /\ pc \in {"reviewed", "done"}
        /\ pc = "reviewed" => finalContent = Null
        /\ pc = "done" => exitCode = 0
        /\ Events \cap {"gh pr create", "git commit", "prompt open",
                        "gh browse"} = {}
        /\ prArgs = Null
        /\ commitMessage = NoMessage

\* A generate pr run that ended after the operator cancelled
C7_Witness ==
    /\ cmd = "pr"
    /\ action = "cancel"
    /\ pc = "done"

ModifiedPaths == {unstagedModifiedFiles[i] : i \in 1..Len(unstagedModifiedFiles)}

\* C8: every entry whose working tree column is M has its path in
\* unstagedModifiedFiles, whatever its index column.
C8_WorktreeModifiedReported ==
    (cmd = "status" /\ pc = "returned") =>
        \A i \in 1..Len(entries) :
            entries[i].y = "M" => entries[i].path \in ModifiedPaths

\* C9: every entry whose index column is M and whose working tree column is
\* not M has its path absent from unstagedModifiedFiles.
C9_StagedOnlyNotReported ==
    (cmd = "status" /\ pc = "returned") =>
        \A i \in 1..Len(entries) :
            (entries[i].x = "M" /\ entries[i].y # "M") =>
                entries[i].path \notin ModifiedPaths

\* C10: needsPush = (no upstream) or (ahead > 0), setUpstream = (no
\* upstream): without upstream the push sets the upstream, with upstream and
\* ahead > 0 it is a plain git push, with upstream and ahead = 0 there is
\* neither a prompt nor a push.
C10_PushDecision ==
    /\ pc \in {"confirmPush", "push"} =>
          /\ ~branch.hasUpstream \/ branch.ahead > 0
          /\ needsPush
          /\ setUpstream <=> ~branch.hasUpstream
    /\ pc = "confirmPush" => log[Len(log)] = "prompt push"
    /\ pc = "push" =>
          log[Len(log)] =
              (IF branch.hasUpstream THEN "git push"
               ELSE "git push --set-upstream")
    /\ pc = "ensureBranchIsPushed return" =>
          /\ branch.hasUpstream
          /\ branch.ahead = 0
          /\ ~needsPush
          /\ ~setUpstream
          /\ Events \cap (PushCommands \cup {"prompt push"}) = {}

\* A plain push of a branch that is more than nine commits ahead
C10_Witness ==
    /\ pc = "push"
    /\ branch.hasUpstream
    /\ branch.ahead > 9

\* What follows a push in a generate pr run
AfterPushEvents ==
    {"ai request", "ai done", "review start", "gh pr create", "prompt open",
     "gh browse"}

\* C11: when a push is needed and confirmations are not skipped, the push
\* command is issued only as the step that follows the operator's yes to the
\* push prompt; when the operator declines, the run ends at once with exit
\* code 0, no push command was issued, and no generation, review or PR
\* creation follows (a run that has ended takes no further step).
C11_PushOnlyAfterConfirm ==
    [][(cmd = "pr" /\ ~yes) =>
        /\ (Len(log') > Len(log) /\ log'[Len(log')] \in PushCommands) =>
              /\ pc = "confirmPush"
              /\ needsPush
              /\ log[Len(log)] = "prompt push"
              /\ pc' = "push"
        /\ (pc = "confirmPush" /\ pc' # "push") =>
              /\ pc' = "done"
              /\ exitCode' = 0
              /\ {log'[i] : i \in 1..Len(log')}
                     \cap (PushCommands \cup AfterPushEvents) = {}
        /\ pc = "done" => UNCHANGED vars
      ]_vars

\* The operator declined the push of a branch without upstream
C11_Witness ==
    /\ cmd = "pr"
    /\ ~yes
    /\ pc = "done"
    /\ log[Len(log)] = "prompt push"
    /\ setUpstream
    /\ exitCode = 0

\* C12: when the push command exits with a nonzero code,
\* ensureBranchIsPushed throws, the run ends with exit code 1 and no
\* generation, review or PR creation is performed.
C12_PushFailureIsFatal ==
    "push failed" \in Events =>
        /\ pc = "done"
        /\ exitCode = 1
        /\ errorMessage = PushError
        /\ log[Len(log)] = "push failed"
        /\ Events \cap AfterPushEvents = {}

\* A failed push that followed the operator's confirmation
C12_Witness ==
    /\ "push failed" \in Events
    /\ "prompt push" \in Events
    /\ "git push --set-upstream" \in Events
    /\ pc = "done"

\* Only whitespace, or nothing at all
IsBlank(s) == \A i \in 1..Len(s) : IsWhitespace(s[i])

\* C13: the string passed to git commit is exactly the title when the body
\* is blank, and otherwise the title, one blank line, and the body from its
\* first to its last non-whitespace character; a blank body never adds a
\* trailing blank line.
C13_CommitMessageComposition ==
    commitMessage # NoMessage =>
        LET title == finalContent.title
            body == finalContent.body
        IN  IF IsBlank(body)
            THEN commitMessage = title
            ELSE \E i, j \in 1..Len(body) :
                    /\ i <= j
                    /\ ~IsWhitespace(body[i])
                    /\ ~IsWhitespace(body[j])
                    /\ \A k \in 1..(i - 1) : IsWhitespace(body[k])
                    /\ \A k \in (j + 1)..Len(body) : IsWhitespace(body[k])
                    /\ commitMessage
                           = title \o <<NL, NL>> \o SubSeq(body, i, j)

\* A message composed from a body that is blank but not empty
C13_Witness ==
    /\ cmd = "message"
    /\ commitMessage # NoMessage
    /\ finalContent.body = <<" ", NL>>
    /\ finalContent.title = <<"t", " ">>

\* generate commit found the staged diff empty, and getUnstagedChanges
\* returned no modified and no untracked file
NothingToCommit ==
    /\ cmd = "commit"
    /\ entries # NoEntries
    /\ stagedDiff = <<>>
    /\ unstagedModifiedFiles = <<>>
    /\ untrackedFiles = <<>>

\* C14 as stated: with nothing staged, modified or untracked, the run exits
\* with code 0 and makes no AI call, no staging and no commit.
C14_NothingToCommit_NoStagingAtAll ==
    NothingToCommit =>
        /\ pc = "done"
        /\ exitCode = 0
        /\ Events \cap {"ai request", "git add .", "git commit"} = {}

\* C14 as amended: with nothing staged, modified or untracked, the run exits
\* with code 0 and makes no AI call and no commit; no stage prompt is shown,
\* and the only staging is the git add . that --all runs before the staged
\* diff is read.
C14_NothingToCommit ==
    NothingToCommit =>
        /\ pc = "done"
        /\ exitCode = 0
        /\ Events \cap {"ai request", "prompt stage", "git commit"} = {}
        /\ commitMessage = NoMessage
        /\ \A i \in 1..Len(log) : log[i] = "git add ." => (all /\ i = 1)

\* A run with --all that found nothing to commit, the working tree holding
\* only a deleted file
C14_Witness ==
    /\ NothingToCommit
    /\ all
    /\ pc = "done"
    /\ Len(entries) = 1
    /\ entries[1].y = "D"

\* Steps of a generate pr run that come after getGitInfo
AfterGitInfoEvents ==
    {"git status --branch", "prompt push", "git push",
     "git push --set-upstream"} \cup AfterPushEvents

\* getGitInfo counted the commits ahead of the base branch and found none
ZeroCommitsAhead == ~commitCount.nan /\ commitCount.value = 0

\* C15: when git rev-list counts 0 commits ahead of the base branch,
\* getGitInfo throws an error whose message names the current branch and the
\* base branch (each in quotes), and the run ends with exit code 1 without a
\* diff or log query, a push, a generation or a PR creation.
C15_ZeroCommitsIsFatal ==
    (cmd = "pr" /\ ZeroCommitsAhead) =>
        /\ pc = "done"
        /\ exitCode = 1
        /\ currentBranch \in CurrentBranches
        /\ baseBranch \in BaseBranches
        /\ \E before, between, after \in
                 {"No commits found on branch ", " ahead of ",
                  ". Nothing to create a PR for."} :
              errorMessage = before \o "'" \o currentBranch \o "'" \o between
                                 \o "'" \o baseBranch \o "'" \o after
        /\ log[Len(log)] = "git rev-list"
        /\ Events \cap ({"git diff", "git log"} \cup AfterGitInfoEvents) = {}

\* No commits on branch feat ahead of develop
C15_Witness ==
    /\ cmd = "pr"
    /\ ZeroCommitsAhead
    /\ currentBranch = "feat"
    /\ baseBranch = "develop"
    /\ pc = "done"

\* Events of getGitInfo that follow the validation of the base branch
AfterValidationEvents ==
    {"git rev-parse", "prompt trunk", "git rev-list", "git diff", "git log"}

\* C16: getGitInfo validates the base branch before anything else; it fails
\* with the base-branch error exactly when both git branch --list and git
\* ls-remote print nothing; when only the remote has the branch it warns and
\* goes on with the current branch, the commit count, the diff and the log.
C16_BaseBranchValidation ==
    /\ [](cmd = "pr" =>
            /\ \A i \in 1..Len(log) :
                  log[i] \in {"git ls-remote", "warn base remote only"}
                            \cup AfterValidationEvents =>
                     \E j \in 1..(i - 1) : log[j] = "git branch --list"
            /\ baseBranch # "" =>
                  /\ (errorMessage = BaseNotFoundMessage(baseBranch))
                        <=> (IsBlank(localBranchExists)
                             /\ IsBlank(remoteBranchExists))
                  /\ errorMessage = BaseNotFoundMessage(baseBranch) =>
                        /\ pc = "done"
                        /\ exitCode = 1
                        /\ Events \cap (AfterValidationEvents
                                        \cup AfterGitInfoEvents) = {}
                  /\ ("warn base remote only" \in Events)
                        <=> (/\ IsBlank(localBranchExists)
                             /\ remoteBranchExists # NoOutput
                             /\ ~IsBlank(remoteBranchExists)))
    /\ [][(cmd = "pr" /\ "warn base remote only" \in Events) =>
            /\ pc = "getGitInfo rev-parse" =>
                  log'[Len(log) + 1] = "git rev-parse"
            /\ pc = "getGitInfo rev-list" =>
                  /\ log'[Len(log) + 1] = "git rev-list"
                  /\ pc' = "ensureBranchIsPushed" =>
                        log' = log \o <<"git rev-list", "git diff", "git log">>
         ]_vars

\* getGitInfo returned although the base branch exists on the remote only
C16_Witness ==
    /\ cmd = "pr"
    /\ pc = "ensureBranchIsPushed"
    /\ "warn base remote only" \in Events
    /\ "git log" \in Events

\* C17: whenever confirmations are not skipped and the current branch is the
\* base branch, main or master, getGitInfo asks the operator before it
\* counts the commits; when the operator declines, the run ends with exit
\* code 0 and no later step runs.
C17_TrunkNeedsConfirmation ==
    (/\ cmd = "pr"
     /\ ~yes
     /\ baseBranch # ""
     /\ currentBranch \in {baseBranch, "main", "master"}) =>
        /\ pc = "getGitInfo rev-list" => "prompt trunk" \in Events
        /\ Precedes("prompt trunk", "git rev-list")
        /\ (pc = "done" /\ log[Len(log)] = "prompt trunk") =>
              /\ exitCode = 0
              /\ Events \cap ({"git rev-list", "git diff", "git log"}
                              \cup AfterGitInfoEvents) = {}

\* The text has an occurrence of the phrase
Occurs(phrase, text) ==
    \E i \in 1..(Len(text) - Len(phrase) + 1) :
        SubSeq(text, i, i + Len(phrase) - 1) = phrase

\* The text has an occurrence of the phrase in some letter case
OccursAnyCase(phrase, text) == Occurs(phrase, toLowerCase(text))

\* generateObject threw an AI SDK API call error (a provider error)
ProviderErrorCaught ==
    /\ cmd = "generate"
    /\ pc = "thrown"
    /\ aiError.isError
    /\ startsWith(aiError.message, ApiCallErrorPrefix)

\* C18: the message parseAiApiError returns for a provider error is decided
\* by the first of 'incorrect api key', 'rate limit', 'model not found',
\* 'insufficient quota' that occurs in the provider text in any letter case,
\* whatever other phrases of the list occur with it; the message is a
\* function of the error and the model name.
C18_ClassificationPriority ==
    ProviderErrorCaught =>
        LET text == aiError.message
        IN  /\ OccursAnyCase(IncorrectApiKey, text) =>
                  thrown = InvalidKeyMessage
            /\ (/\ ~OccursAnyCase(IncorrectApiKey, text)
                /\ OccursAnyCase(RateLimit, text)) =>
                  thrown = RateLimitMessage
            /\ (/\ ~OccursAnyCase(IncorrectApiKey, text)
                /\ ~OccursAnyCase(RateLimit, text)
                /\ OccursAnyCase(ModelNotFound, text)) =>
                  thrown = ModelNotFoundHead \o modelName \o ModelNotFoundTail
            /\ (/\ ~OccursAnyCase(IncorrectApiKey, text)
                /\ ~OccursAnyCase(RateLimit, text)
                /\ ~OccursAnyCase(ModelNotFound, text)
                /\ OccursAnyCase(InsufficientQuota, text)) =>
                  thrown = QuotaMessage

\* A provider error that names the quota, then the rate limit in capitals,
\* classified as a rate limit
C18_Witness ==
    /\ ProviderErrorCaught
    /\ Occurs(InsufficientQuota, aiError.message)
    /\ OccursAnyCase(RateLimit, aiError.message)
    /\ ~Occurs(RateLimit, aiError.message)
    /\ ~OccursAnyCase(IncorrectApiKey, aiError.message)
    /\ thrown = RateLimitMessage

\* "AI_APICallError: incorrect api key provided"
IncorrectApiKeyError ==
    <<"A", "I", "_", "A", "P", "I", "C", "a", "l", "l", "E", "r", "r", "o",
      "r", ":", " ", "i", "n", "c", "o", "r", "r", "e", "c", "t", " ", "a",
      "p", "i", " ", "k", "e", "y", " ", "p", "r", "o", "v", "i", "d", "e",
      "d">>

ClassifiedModelNotFound ==
    /\ ProviderErrorCaught
    /\ OccursAnyCase(ModelNotFound, aiError.message)
    /\ ~OccursAnyCase(IncorrectApiKey, aiError.message)
    /\ ~OccursAnyCase(RateLimit, aiError.message)

\* C20: a provider error classified as 'model not found' yields a message
\* that contains the model name passed to the generation call, and no other
\* model name.
C20_NamesRequestedModel ==
    ClassifiedModelNotFound =>
        /\ modelName \in ModelNames
        /\ Occurs(modelName, thrown)
        /\ \A other \in ModelNames \ {modelName} : ~Occurs(other, thrown)

\* A model-not-found error for a model that is not the default
C20_Witness ==
    /\ ClassifiedModelNotFound
    /\ modelName # DefaultModel
    /\ Occurs(InsufficientQuota, aiError.message)

\* None of the four phrases occurs in the text, in any letter case
NoPhraseOccurs(text) ==
    /\ ~OccursAnyCase(IncorrectApiKey, text)
    /\ ~OccursAnyCase(RateLimit, text)
    /\ ~OccursAnyCase(ModelNotFound, text)
    /\ ~OccursAnyCase(InsufficientQuota, text)

\* The text with the whitespace around it removed: it runs from the first to
\* the last character of text that is not whitespace
IsStripped(stripped, text) ==
    IF IsBlank(text) THEN stripped = <<>>
    ELSE \E i, j \in 1..Len(text) :
            /\ i <= j
            /\ ~IsWhitespace(text[i])
            /\ ~IsWhitespace(text[j])
            /\ \A k \in 1..(i - 1) : IsWhitespace(text[k])
            /\ \A k \in (j + 1)..Len(text) : IsWhitespace(text[k])
            /\ stripped = SubSeq(text, i, j)

\* C21: for a provider-call error in which none of the four phrases occurs,
\* parseAiApiError returns 'OpenAI API Error: ' followed by the provider's
\* message, the text after the AI_APICallError: prefix without the
\* whitespace around it, character for character.
C21_UnmatchedProviderErrorSurfaces ==
    (ProviderErrorCaught /\ NoPhraseOccurs(aiError.message)) =>
        /\ Len(thrown) >= Len(OpenAiErrorPrefix)
        /\ SubSeq(thrown, 1, Len(OpenAiErrorPrefix)) = OpenAiErrorPrefix
        /\ IsStripped(SubSeq(thrown, Len(OpenAiErrorPrefix) + 1, Len(thrown)),
                      SubSeq(aiError.message, Len(ApiCallErrorPrefix) + 1,
                             Len(aiError.message)))

\* An unmatched provider error whose text has capitals and inner blanks
C21_Witness ==
    /\ ProviderErrorCaught
    /\ NoPhraseOccurs(aiError.message)
    /\ aiError.message = ApiCallErrorPrefix \o <<"X", " ", "X", " ">>
    /\ thrown = OpenAiErrorPrefix \o <<"X", " ", "X">>

\* parseAiApiError returned for a failure that is not a provider-call error
OtherFailureCaught ==
    /\ cmd = "generate"
    /\ pc = "thrown"
    /\ ~(aiError.isError /\ startsWith(aiError.message, ApiCallErrorPrefix))

\* C22: for a failure that is not a provider-call error parseAiApiError
\* returns an Error: for an Error without the prefix its message is the
\* original message unchanged, whatever phrases it holds, and for a thrown
\* value that is not an Error it is the fixed non-Error text.
C22_OtherFailures ==
    OtherFailureCaught =>
        /\ thrown # NoText
        /\ aiError.isError => thrown = aiError.message
        /\ ~aiError.isError => thrown = NonErrorMessage

\* An Error without the prefix whose text names the rate limit
C22_Witness ==
    /\ OtherFailureCaught
    /\ aiError.isError
    /\ OccursAnyCase(RateLimit, aiError.message)
    /\ Occurs(ApiCallErrorPrefix, aiError.message)
    /\ thrown = aiError.message

\* C23: checkPrerequisites performs its checks in the order git installed,
\* gh installed, gh authenticated, OPENAI_API_KEY set; it throws at the
\* first failing check with the message of that check, performs none of the
\* later checks, and resolves only when all four have been performed and
\* the credential is set.
C23_PrerequisiteOrder ==
    [][pc = "checkPrerequisites" =>
          \E k \in 1..Len(PrerequisiteChecks) :
             /\ log' = log \o ChecksUpTo(k)
             /\ \/ /\ pc' = "done"
                   /\ exitCode' = 1
                   /\ errorMessage' = PrerequisiteMessages[k]
                   /\ k = Len(PrerequisiteChecks) => ~apiKeySet
                \/ /\ pc' = "getGitInfo"
                   /\ exitCode' = 0 - 1
                   /\ k = Len(PrerequisiteChecks)
                   /\ apiKeySet]_vars

\* gh is installed but not authenticated: the credential is never read
C23_Witness ==
    /\ cmd = "pr"
    /\ pc = "done"
    /\ exitCode = 1
    /\ errorMessage = PrerequisiteMessages[3]
    /\ log = <<"which git", "which gh", "gh auth status">>

\* The checks of the validator, as a set of events
PrerequisiteEvents == {PrerequisiteChecks[k] : k \in 1..Len(PrerequisiteChecks)}

\* checkPrerequisites completed successfully before anything else happened
ValidatedFirst ==
    /\ Len(log) >= Len(PrerequisiteChecks)
    /\ ChecksUpTo(Len(PrerequisiteChecks)) = SubSeq(log, 1, Len(PrerequisiteChecks))
    /\ apiKeySet

\* Some step other than a prerequisite check has happened
WorkflowStarted == \E i \in 1..Len(log) : log[i] \notin PrerequisiteEvents

\* C24 as stated: in every run of generate pr and of generate commit no
\* git-state query, staging, AI request or finalization happens before
\* checkPrerequisites has completed successfully.
C24_ValidatedFirst_BothWorkflows == WorkflowStarted => ValidatedFirst

\* C24, amended: in every run of generate pr no git-state query, staging, AI
\* request or finalization happens before checkPrerequisites has completed
\* successfully; a run of generate commit never performs a prerequisite
\* check.
C24_ValidatedFirst ==
    /\ (cmd = "pr" /\ WorkflowStarted) => ValidatedFirst
    /\ cmd = "commit" => \A i \in 1..Len(log) : log[i] \notin PrerequisiteEvents

\* A run of generate pr that has gone on to create the pull request
C24_Witness ==
    /\ cmd = "pr"
    /\ ValidatedFirst
    /\ \E i \in 1..Len(log) : log[i] = "gh pr create"

\* The run has ended
Ended == pc = "done"

\* The top-level handler caught an error and printed its message
ErrorCaught == Ended /\ errorMessage # ""

\* The run ended after its last step: the commit was made, the pull request
\* was created, or the dry run printed its results
Succeeded ==
    /\ Ended
    /\ \E i \in 1..Len(log) :
          log[i] \in {"commit done", "gh pr create", "dry run results"}
    /\ errorMessage = ""

\* The prompts at which the operator can abort the run
AbortPrompts == {"getGitInfo proceed", "confirmPush", "confirmStage"}

\* C25: every run of generate pr or generate commit ends with exit code 0 or
\* 1: 1 whenever the top-level handler caught an error, 0 on success and on
\* every abort by the operator (trunk-branch decline, push decline, staging
\* decline, review cancel).
C25_ExitCodes ==
    /\ [](Ended => /\ exitCode \in {0, 1}
                   /\ ErrorCaught => exitCode = 1
                   /\ Succeeded => exitCode = 0)
    /\ [][/\ (pc \in AbortPrompts /\ pc' = "done") => exitCode' = 0
          /\ (pc = "reviewed" /\ finalContent = Null) =>
                (pc' = "done" /\ exitCode' = 0)]_vars

\* The operator cancelled the review of a commit message
C25_Witness ==
    /\ cmd = "commit"
    /\ Ended
    /\ action = "cancel"
    /\ finalContent = Null
    /\ exitCode = 0

\* The content generation failed: the provider call threw (a provider error
\* or a response that fails the schema), or the credential was missing
GenerationFailed ==
    \/ \E i \in 1..Len(log) : log[i] = "ai failed"
    \/ errorMessage = MissingKeyMessage

\* The steps that follow a generation: the review and the finalization
AfterGenerationEvents ==
    {"review start", "review return", "git commit", "commit done",
     "gh pr create", "dry run results", "prompt open", "gh browse"}

\* C26: if the content generation fails, no artifact is returned: the
\* failure is rethrown, the run ends with exit code 1, and neither the
\* review loop nor git commit nor gh pr create is invoked.
C26_GenerationFailureIsFatal ==
    /\ [](GenerationFailed =>
            /\ Ended
            /\ exitCode = 1
            /\ errorMessage # ""
            /\ generated = Null
            /\ finalContent = Null
            /\ prArgs = Null
            /\ commitMessage = NoMessage
            /\ \A i \in 1..Len(log) : log[i] \notin AfterGenerationEvents)
    /\ [][(pc \in {"generate", "generateObject"} /\ generated' = Null
           /\ pc' # "generateObject") =>
               (pc' = "done" /\ exitCode' = 1)]_vars

\* The provider call of a run of generate pr failed
C26_Witness ==
    /\ cmd = "pr"
    /\ Ended
    /\ log[Len(log)] = "ai failed"
    /\ exitCode = 1

\* The option that carries each property of the configuration
OptionOf(prop) ==
    CASE prop = "baseBranch" -> "base"
      [] prop = "model" -> "model"
      [] prop = "language" -> "language"
      [] prop = "skipConfirmations" -> "yes"

\* The command line was parsed and the handler has its values
Resolved == cmd = "config" /\ pc = "resolved"

\* The properties the command reads (generate commit has no base branch)
PropsOf(command) ==
    IF command = "pr" THEN ConfigProps ELSE ConfigProps \ {"baseBranch"}

\* The configuration file is one that loadConfig accepts
FileValid ==
    configFile.kind = "object" /\ ConfigFileSchemaAccepts(configFile.config)

\* C27: for each of baseBranch, model, language and skipConfirmations the
\* value a run uses is the command-line value when one is supplied,
\* otherwise the value of the (valid) configuration file when it defines
\* the field, otherwise the built-in default; the resolved configuration
\* has all four fields defined.
C27_Precedence ==
    Resolved =>
        /\ \A prop \in ConfigProps : config[prop] # Undefined
        /\ \A prop \in PropsOf(cliArgs.command) :
              options[OptionOf(prop)] =
                 IF cliArgs[OptionOf(prop)] # Undefined
                 THEN cliArgs[OptionOf(prop)]
                 ELSE IF FileValid /\ configFile.config[prop] # Undefined
                 THEN configFile.config[prop]
                 ELSE defaultConfig[prop]

\* The configuration file was read and is invalid: it cannot be parsed, or
\* holds an unknown property or a value of the wrong type
FileInvalid ==
    /\ cmd = "config"
    /\ pc # "loadConfig"
    /\ \/ configFile.kind = "throws"
       \/ configFile.kind = "object" /\ ~ConfigFileSchemaAccepts(configFile.config)

\* C28: when the configuration file is invalid, loadConfig does not throw
\* and returns exactly the built-in defaults for all four fields: no field
\* of the invalid file, not even a valid one, is used.
C28_InvalidFileGivesDefaults ==
    FileInvalid =>
        /\ exitCode = 0 - 1
        /\ errorMessage = ""
        /\ \A prop \in ConfigProps : config[prop] = defaultConfig[prop]

\* A file with a valid model and an unknown property
C28_Witness ==
    /\ FileInvalid
    /\ configFile.config["model"] = Str("gpt-4")
    /\ configFile.config["unknownProperty"] # Undefined
    /\ configFile.config["baseBranch"] = Undefined
    /\ config["model"] = Str("gpt-4.1-mini")

\* The steps of askAndOpenPr
OpenEvents ==
    {"prompt open", "gh browse", "gh browse failed", "print url",
     "warn no pr number"}

\* C29: createGitHubPr returns only a string that starts with 'http': when
\* gh pr create fails, or its trimmed output is empty or does not start
\* with 'http', it throws, the run ends with exit code 1, and the
\* open-in-browser step is never reached.
C29_OnlyHttpUrlReturned ==
    /\ []((pc = "askAndOpenPr" \/ \E i \in 1..Len(log) : log[i] \in OpenEvents)
             => (startsWith(prUrl, Http) /\ prUrl = trim(prUrl)))
    /\ []((Ended /\ errorMessage = CreatePrFailedMessage) =>
             /\ exitCode = 1
             /\ \A i \in 1..Len(log) : log[i] \notin OpenEvents)
    /\ [][pc = "createGitHubPr" =>
             IF prUrl' # NoOutput /\ prUrl' # <<>> /\ startsWith(prUrl', Http)
             THEN pc' = "askAndOpenPr" /\ exitCode' = 0 - 1
             ELSE /\ pc' = "done"
                  /\ exitCode' = 1
                  /\ errorMessage' = CreatePrFailedMessage]_vars

\* gh pr create printed a text in which http is not at the start
C29_Witness ==
    /\ cmd = "pr"
    /\ Ended
    /\ exitCode = 1
    /\ errorMessage = CreatePrFailedMessage
    /\ prUrl # NoOutput
    /\ Occurs(Http, prUrl)
    /\ ~startsWith(prUrl, Http)

\* C30: a failure of the open-in-browser step is never fatal: askAndOpenPr
\* does not throw when gh browse fails or when no PR number can be
\* extracted from the URL, the run ends with exit code 0, and in each of
\* these cases the PR URL is printed as the fallback.
C30_OpenFailureFallsBackToUrl ==
    [][pc = "askAndOpenPr" =>
          LET added == {log'[i] : i \in (Len(log) + 1)..Len(log')}
          IN  /\ pc' = "done"
              /\ exitCode' = 0
              /\ errorMessage' = ""
              /\ ("gh browse failed" \in added \/ "warn no pr number" \in added)
                    => "print url" \in added]_vars

\* C31: with --dry-run, gh pr create and the open-in-browser step are never
\* invoked: after generation and review the run prints the title and body
\* (the dry run results) and ends with exit code 0.
C31_DryRunCreatesNothing ==
    /\ []((cmd = "pr" /\ dryRun) =>
             /\ \A i \in 1..Len(log) :
                   log[i] # "gh pr create" /\ log[i] \notin OpenEvents
             /\ pc \notin {"createGitHubPr", "askAndOpenPr"}
             /\ prArgs = Null
             /\ prUrl = NoOutput)
    /\ [][(cmd = "pr" /\ dryRun /\ pc = "reviewed" /\ finalContent # Null) =>
             /\ pc' = "done"
             /\ exitCode' = 0
             /\ log' = log \o <<"dry run results">>]_vars

\* A dry run that went through generation and review
C31_Witness ==
    /\ cmd = "pr"
    /\ dryRun
    /\ Ended
    /\ exitCode = 0
    /\ finalContent # Null
    /\ log[Len(log)] = "dry run results"
    /\ \E i \in 1..Len(log) : log[i] = "review return"

\* C32: in every run the title that reaches the finalizer (gh pr create, or
\* the first line of the commit message) is non-empty text, whatever title
\* the AI provider returned and whatever the operator entered in a title
\* edit.
C32_TitleNonEmpty ==
    /\ prArgs # Null => prArgs.title # <<>>
    /\ commitMessage # NoMessage => split(commitMessage, NL)[1] # <<>>

\* generate commit found the staged diff empty, and getUnstagedChanges
\* returned modified or untracked files
OnlyUnstagedChanges ==
    /\ cmd = "commit"
    /\ entries # NoEntries
    /\ stagedDiff = <<>>
    /\ unstagedModifiedFiles # <<>> \/ untrackedFiles # <<>>

\* C33: in generate commit with --yes and without --all, when nothing is
\* staged but unstaged-modified or untracked files exist, the run ends with
\* exit code 0 without prompting, without staging anything, without an AI
\* call and without a commit.
C33_YesWithOnlyUnstagedChanges ==
    (OnlyUnstagedChanges /\ yes /\ ~all) =>
        /\ Ended
        /\ exitCode = 0
        /\ errorMessage = ""
        /\ Events \cap {"prompt stage", "git add .", "ai request",
                        "git commit"} = {}
        /\ generated = Null
        /\ commitMessage = NoMessage

\* A run with --yes that found one modified and one untracked file
C33_Witness ==
    /\ OnlyUnstagedChanges
    /\ yes
    /\ ~all
    /\ Ended
    /\ unstagedModifiedFiles # <<>>
    /\ untrackedFiles # <<>>

\* The operator accepted the staging prompt, git add . ran, and the staged
\* diff read after it was empty
StillEmptyAfterStaging ==
    /\ cmd = "commit"
    /\ stagedDiff = <<>>
    /\ \E i, j, k \in 1..Len(log) :
          /\ i < j
          /\ j < k
          /\ log[i] = "prompt stage"
          /\ log[j] = "git add ."
          /\ log[k] = "git diff --staged"

\* C34: in generate commit, when the operator accepts the staging prompt
\* and the staged diff is still empty after git add ., the run ends with
\* exit code 1 and makes no AI call and no commit.
C34_StillEmptyAfterStaging ==
    StillEmptyAfterStaging =>
        /\ Ended
        /\ exitCode = 1
        /\ Events \cap {"ai request", "git commit"} = {}
        /\ generated = Null
        /\ commitMessage = NoMessage

\* The re-check returned an empty diff (no command failed)
C34_Witness ==
    /\ StillEmptyAfterStaging
    /\ Ended
    /\ exitCode = 1
    /\ errorMessage = ""

\* C35: in generate commit the AI generation request is issued only with a
\* non-empty staged diff: while the staged diff getStagedDiff last returned
\* is empty, generateCommitMessageContent is never invoked.
C35_GenerationNeedsStagedDiff ==
    (cmd = "commit" /\ stagedDiff = <<>>) =>
        /\ pc \notin {"generate", "generateObject", "generated", "review",
                      "editTitle", "editBody", "reviewed", "gitCommit"}
        /\ Events \cap {"ai request", "ai done", "ai failed"} = {}
        /\ errorMessage # MissingKeyMessage
        /\ generated = Null

\* The request was issued after the operator had the changes staged
C35_Witness ==
    /\ cmd = "commit"
    /\ stagedDiff # <<>>
    /\ "ai request" \in Events
    /\ "prompt stage" \in Events

\* C36: in generate commit, git add . is executed only when --all was
\* passed (at the start of the run) or the operator answered yes to the
\* staging prompt; in every other run, including runs that end by a decline
\* or a review cancel, the index is never modified before git commit.
C36_StagingOnlyOnRequest ==
    /\ [](cmd = "commit" =>
             \A i \in 1..Len(log) :
                log[i] = "git add ." =>
                   \/ all /\ i = 1
                   \/ ~yes /\ i > 1 /\ log[i - 1] = "prompt stage")
    /\ [][cmd = "commit" =>
             /\ (pc = "confirmStage" /\ pc' = "done") => log' = log
             /\ (pc = "reviewed" /\ finalContent = Null) => log' = log]_vars

\* A run without --all that ended by a review cancel with nothing staged by
\* the program
C36_Witness ==
    /\ cmd = "commit"
    /\ ~all
    /\ Ended
    /\ action = "cancel"
    /\ "git add ." \notin Events
    /\ exitCode = 0

\* The awaits of ensureBranchIsPushed
PushSteps ==
    {"ensureBranchIsPushed", "confirmPush", "push",
     "ensureBranchIsPushed return"}

\* C37: every error that leaves ensureBranchIsPushed, whether the status
\* query failed or the push command exited with a non-zero code, carries the
\* message 'Git Error: Error during git status check or push operation.':
\* the message naming the failed push command does not reach the top-level
\* handler.
C37_OnePushErrorMessage ==
    /\ [][(pc \in PushSteps /\ exitCode' = 1) =>
             errorMessage' =
                "Git Error: Error during git status check or push operation."
         ]_vars
    /\ [](\A upstream \in BOOLEAN, name \in CurrentBranches :
             errorMessage # PushFailedMessage(upstream, name))

\* A push with --set-upstream that failed
C37_Witness ==
    /\ Ended
    /\ exitCode = 1
    /\ log[Len(log)] = "push failed"
    /\ "git push --set-upstream" \in Events
    /\ errorMessage = PushError

\* The awaits of the review loop: the action prompt, the title prompt, the
\* editor
ReviewLoop == {"review", "editTitle", "editBody"}

\* C38: when every external call settles, a run either reaches a terminal
\* outcome (exit code 0 or 1) or stays in the review loop from some point
\* on, which is the operator never selecting confirm or cancel: a run whose
\* operator eventually selects one of them ends, and the run iterates
\* without bound nowhere but in the review loop.
C38_Termination ==
    \/ <>(Ended /\ exitCode \in {0, 1})
    \/ <>[](pc \in ReviewLoop)

\* A run that ended after the operator edited the title and the body and
\* then confirmed
C38_Witness ==
    /\ Ended
    /\ action = "confirm"
    /\ lastTitleInput # NoInput
    /\ lastBodyInput # NoInput
    /\ exitCode = 0

====
